---- MODULE Spec2Model ----
(***************************************************************************)
(* Score normalisation and ranking arithmetic of the city sustainability   *)
(* assessment application (ranking.py, flexible_ranking.py,                *)
(* flexible_analysis.py, spider_plot.py, flexible_spider_plot.py).         *)
(*                                                                         *)
(* Numbers are pandas/numpy floats in the source.  They are modelled as    *)
(* exact extended rationals <<n, d>> in lowest terms with d >= 0:          *)
(*   d > 0          the number n/d                                         *)
(*   <<0, 0>>       NaN  (0/0)                                             *)
(*   <<1, 0>>       +inf, <<-1, 0>> -inf (x/0 with x # 0)                  *)
(* so that a division by a zero range gives what numpy gives, and          *)
(* comparisons with NaN are false as in IEEE 754.  Rounding error of       *)
(* binary floating point is not modelled.                                  *)
(***************************************************************************)
EXTENDS Integers, Sequences, FiniteSets, TLC

VARIABLES
    df,          \* template table: sequence of city records (DataFrame rows)
    cols,        \* set of column names present in df (df.columns)
    pc,          \* which template operation produced out
    out,         \* the table returned by the operation: one record per row
    weights,     \* slider positions of the weighted ranking being shown
    indicators_data,  \* custom indicators: rows of custom_indicators.csv
    research_data,         \* st.session_state.research_data (setup form)
    custom_indicators_csv, \* data/custom_indicators.csv
    cities_data_csv,       \* data/cities_data.csv
    influence_matrix_csv,  \* data/influence_matrix.csv
    session_state,         \* the other st.session_state entries of the session
    sessions               \* concurrent script runs: position and local DataFrame

storeVars == <<research_data, custom_indicators_csv, cities_data_csv,
               influence_matrix_csv, session_state, sessions>>

vars == <<df, cols, pc, out, weights, indicators_data, storeVars>>

(***************************************************************************)
(* Bounds of the model.                                                    *)
(***************************************************************************)
MaxCities == 3
MaxRows == 3

(***************************************************************************)
(* Files and session state.  A CSV file is either missing or holds a       *)
(* sequence of rows; an st.session_state entry is either absent or holds   *)
(* a value.  Both are records [exists, rows].                              *)
(***************************************************************************)
NoFile == [exists |-> FALSE, rows |-> <<>>]

File(rows) == [exists |-> TRUE, rows |-> rows]

\* main initialises the four flags to False when they are absent;
\* show_influence_analysis and confirm_clear_all are read with .get(.., False)
NewSession ==
    [custom_indicators_data |-> NoFile,
     city_data |-> NoFile,
     setup_complete |-> FALSE,
     data_collection_complete |-> FALSE,
     data_entered |-> FALSE,
     use_custom_indicators |-> FALSE,
     show_influence_analysis |-> FALSE,
     confirm_clear_all |-> FALSE,
     widgets |-> <<>>]

\* no setup done: 'research_data' not in st.session_state
NoResearchData == [exists |-> FALSE, city |-> <<>>]

\* a fresh installation: no data files, one untouched session
NoStore ==
    /\ research_data = NoResearchData
    /\ custom_indicators_csv = NoFile
    /\ cities_data_csv = NoFile
    /\ influence_matrix_csv = NoFile
    /\ session_state = NewSession
    /\ sessions = <<>>

(***************************************************************************)
(* Float arithmetic.                                                       *)
(***************************************************************************)
Abs(x) == IF x < 0 THEN -x ELSE x

Sign(x) == IF x < 0 THEN -1 ELSE IF x > 0 THEN 1 ELSE 0

RECURSIVE GCD(_, _)
GCD(a, b) == IF b = 0 THEN a ELSE GCD(b, a % b)

\* lowest terms, non-negative denominator
Norm(n, d) ==
    IF d = 0 THEN <<Sign(n), 0>>
    ELSE LET g == GCD(Abs(n), Abs(d))
         IN  <<(Sign(d) * n) \div g, Abs(d) \div g>>

R(k) == <<k, 1>>
NaN == <<0, 0>>
IsNaN(x) == x = NaN
IsNum(x) == x[2] > 0

RAdd(x, y) == Norm(x[1] * y[2] + y[1] * x[2], x[2] * y[2])
RSub(x, y) == Norm(x[1] * y[2] - y[1] * x[2], x[2] * y[2])
RMul(x, y) == Norm(x[1] * y[1], x[2] * y[2])
RDiv(x, y) == IF y[2] = 0 /\ x[2] = 0 THEN NaN
              ELSE Norm(x[1] * y[2], x[2] * y[1])
\* IEEE comparisons: false whenever an operand is NaN
RLt(x, y) == ~IsNaN(x) /\ ~IsNaN(y) /\ x # y /\
             IF x[2] = 0 THEN x[1] < 0
             ELSE IF y[2] = 0 THEN y[1] > 0
             ELSE x[1] * y[2] < y[1] * x[2]
RGt(x, y) == RLt(y, x)
RLe(x, y) == ~IsNaN(x) /\ ~IsNaN(y) /\ (x = y \/ RLt(x, y))

\* the sequence <<f[1], ..., f[n]>>, each entry evaluated once
RECURSIVE Tabulate(_, _)
Tabulate(f, n) == IF n = 0 THEN <<>> ELSE Append(Tabulate(f, n - 1), f[n])

\* Series.min() / Series.max(): NaN entries are skipped, NaN if none is left
SeriesMin(s) ==
    LET nums == {i \in DOMAIN s : ~IsNaN(s[i])}
    IN  IF nums = {} THEN NaN
        ELSE s[CHOOSE i \in nums : \A j \in nums : ~RLt(s[j], s[i])]
SeriesMax(s) ==
    LET nums == {i \in DOMAIN s : ~IsNaN(s[i])}
    IN  IF nums = {} THEN NaN
        ELSE s[CHOOSE i \in nums : \A j \in nums : ~RLt(s[i], s[j])]

\* as RankDescMin with method='dense'
RankDescDense(s) ==
    Tabulate([i \in DOMAIN s |->
        IF IsNaN(s[i]) THEN NaN
        ELSE R(1 + Cardinality({s[j] : j \in {k \in DOMAIN s : RGt(s[k], s[i])}}))],
        Len(s))

\* Series.rank(ascending=False, method='min'): NaN keeps rank NaN
RankDescMin(s) ==
    Tabulate([i \in DOMAIN s |->
        IF IsNaN(s[i]) THEN NaN
        ELSE R(1 + Cardinality({j \in DOMAIN s : RGt(s[j], s[i])}))], Len(s))

Column(t, c) == Tabulate([i \in DOMAIN t |-> t[i][c]], Len(t))

(***************************************************************************)
(* Template tables.                                                        *)
(***************************************************************************)
BaseCols == {"Air_Quality", "Green_Space", "Renewable_Energy",
             "Education_Index", "Healthcare_Access", "Safety_Index",
             "GDP_per_Capita", "Unemployment_Rate", "Innovation_Index"}

\* the indicator columns of cities_data.csv
AllCols == BaseCols \cup {"Waste_Management", "Water_Quality",
                          "Social_Inclusion", "Housing_Affordability",
                          "Business_Environment", "Income_Equality"}

\* the form defaults of DEFAULT_INDICATORS, used for the columns not varied
DefaultRow ==
    [Air_Quality |-> R(70), Green_Space |-> R(35), Renewable_Energy |-> R(30),
     Education_Index |-> <<3, 4>>, Healthcare_Access |-> R(80),
     Safety_Index |-> <<15, 2>>, GDP_per_Capita |-> R(45000),
     Unemployment_Rate |-> R(5), Innovation_Index |-> R(65),
     Waste_Management |-> R(60), Water_Quality |-> R(75),
     Social_Inclusion |-> R(65), Housing_Affordability |-> R(60),
     Business_Environment |-> R(70), Income_Equality |-> R(60)]

GDPValues == {0, 45000}

\* city records the entry form can produce (values within the form ranges)
Rows ==
    {[DefaultRow EXCEPT !.Air_Quality = R(a), !.Safety_Index = R(s),
                        !.GDP_per_Capita = R(g)] :
        a \in {0, 100}, s \in {0, 10}, g \in GDPValues}

Tables == UNION {[1..n -> Rows] : n \in 1..MaxCities}

ColumnSets == {AllCols, AllCols \ {"Air_Quality"},
               AllCols \ {"Safety_Index"}, AllCols \ {"GDP_per_Capita"}}

SliderValues == {0, 33, 100}

(***************************************************************************)
(* ranking.py                                                              *)
(***************************************************************************)
calculate_comprehensive_rankings(t) ==
    LET gdp == Column(t, "GDP_per_Capita")
        gmin == SeriesMin(gdp)
        gmax == SeriesMax(gdp)
        norm == Tabulate([i \in DOMAIN t |->
            [Air_Quality_norm |-> RDiv(t[i].Air_Quality, R(100)),
             Green_Space_norm |-> RDiv(t[i].Green_Space, R(100)),
             Renewable_Energy_norm |-> RDiv(t[i].Renewable_Energy, R(100)),
             Education_norm |-> t[i].Education_Index,
             Healthcare_norm |-> RDiv(t[i].Healthcare_Access, R(100)),
             Safety_norm |-> RDiv(t[i].Safety_Index, R(10)),
             GDP_norm |-> RDiv(RSub(t[i].GDP_per_Capita, gmin), RSub(gmax, gmin)),
             Employment_norm |-> RDiv(RSub(R(50), t[i].Unemployment_Rate), R(50)),
             Innovation_norm |-> RDiv(t[i].Innovation_Index, R(100))]], Len(t))
        dim == Tabulate([i \in DOMAIN t |->
            [Environmental_Score |->
                RDiv(RAdd(RAdd(norm[i].Air_Quality_norm, norm[i].Green_Space_norm),
                          norm[i].Renewable_Energy_norm), R(3)),
             Social_Score |->
                RDiv(RAdd(RAdd(norm[i].Education_norm, norm[i].Healthcare_norm),
                          norm[i].Safety_norm), R(3)),
             Economic_Score |->
                RDiv(RAdd(RAdd(norm[i].GDP_norm, norm[i].Employment_norm),
                          norm[i].Innovation_norm), R(3))]], Len(t))
        overall == Tabulate([i \in DOMAIN t |->
            RDiv(RAdd(RAdd(dim[i].Environmental_Score, dim[i].Social_Score),
                      dim[i].Economic_Score), R(3))], Len(t))
        orank == RankDescMin(overall)
        erank == RankDescMin(Column(dim, "Environmental_Score"))
        srank == RankDescMin(Column(dim, "Social_Score"))
        crank == RankDescMin(Column(dim, "Economic_Score"))
    IN  Tabulate([i \in DOMAIN t |->
            [GDP_norm |-> norm[i].GDP_norm,
             Environmental_Score |-> dim[i].Environmental_Score,
             Social_Score |-> dim[i].Social_Score,
             Economic_Score |-> dim[i].Economic_Score,
             Overall_Score |-> overall[i],
             Overall_Rank |-> orank[i],
             Environmental_Rank |-> erank[i],
             Social_Rank |-> srank[i],
             Economic_Rank |-> crank[i]]], Len(t))

\* show_ranking_section of ranking.py up to the table of rankings; a missing
\* column makes df[...] raise KeyError
show_ranking_section ==
    /\ pc = "input"
    /\ IF BaseCols \subseteq cols
       THEN /\ pc' = "ranked"
            /\ out' = calculate_comprehensive_rankings(df)
       ELSE /\ pc' = "KeyError"
            /\ out' = <<>>
    /\ UNCHANGED <<df, cols, weights, indicators_data, storeVars>>

\* as custom_weighted, the scores multiplied by the weights as entered
custom_weighted_unnormalized(t, w) ==
    LET env_weight == RDiv(R(w[1]), R(100))
        social_weight == RDiv(R(w[2]), R(100))
        economic_weight == RDiv(R(w[3]), R(100))
        total_weight == RAdd(RAdd(env_weight, social_weight), economic_weight)
        env_weight_norm == RDiv(env_weight, total_weight)
        social_weight_norm == RDiv(social_weight, total_weight)
        economic_weight_norm == RDiv(economic_weight, total_weight)
        custom == Tabulate([i \in DOMAIN t |->
            RAdd(RAdd(RMul(t[i].Environmental_Score, env_weight),
                      RMul(t[i].Social_Score, social_weight)),
                 RMul(t[i].Economic_Score, economic_weight))], Len(t))
        crank == RankDescMin(custom)
    IN  Tabulate([i \in DOMAIN t |->
            [Environmental_Score |-> t[i].Environmental_Score,
             Social_Score |-> t[i].Social_Score,
             Economic_Score |-> t[i].Economic_Score,
             Overall_Score |-> t[i].Overall_Score,
             Overall_Rank |-> t[i].Overall_Rank,
             env_weight_norm |-> env_weight_norm,
             social_weight_norm |-> social_weight_norm,
             economic_weight_norm |-> economic_weight_norm,
             Custom_Score |-> custom[i],
             Custom_Rank |-> crank[i]]], Len(t))

\* the branch of show_custom_weighted_ranking taken when total_weight > 0;
\* w holds the three slider positions in hundredths
custom_weighted(t, w) ==
    LET env_weight == RDiv(R(w[1]), R(100))
        social_weight == RDiv(R(w[2]), R(100))
        economic_weight == RDiv(R(w[3]), R(100))
        total_weight == RAdd(RAdd(env_weight, social_weight), economic_weight)
        env_weight_norm == RDiv(env_weight, total_weight)
        social_weight_norm == RDiv(social_weight, total_weight)
        economic_weight_norm == RDiv(economic_weight, total_weight)
        custom == Tabulate([i \in DOMAIN t |->
            RAdd(RAdd(RMul(t[i].Environmental_Score, env_weight_norm),
                      RMul(t[i].Social_Score, social_weight_norm)),
                 RMul(t[i].Economic_Score, economic_weight_norm))], Len(t))
        crank == RankDescMin(custom)
    IN  Tabulate([i \in DOMAIN t |->
            [Environmental_Score |-> t[i].Environmental_Score,
             Social_Score |-> t[i].Social_Score,
             Economic_Score |-> t[i].Economic_Score,
             Overall_Score |-> t[i].Overall_Score,
             Overall_Rank |-> t[i].Overall_Rank,
             env_weight_norm |-> env_weight_norm,
             social_weight_norm |-> social_weight_norm,
             economic_weight_norm |-> economic_weight_norm,
             Custom_Score |-> custom[i],
             Custom_Rank |-> crank[i]]], Len(t))

\* show_ranking_section of ranking.py with "Custom Weighted Ranking" selected
show_custom_weighted_ranking ==
    /\ pc = "input"
    /\ IF ~(BaseCols \subseteq cols)
       THEN /\ pc' = "KeyError"
            /\ out' = <<>>
            /\ UNCHANGED weights
       ELSE \E w \in [1..3 -> SliderValues] :
            /\ weights' = w
            /\ IF w[1] + w[2] + w[3] > 0
               THEN /\ pc' = "custom"
                    /\ out' = custom_weighted(calculate_comprehensive_rankings(df), w)
               ELSE /\ pc' = "custom_none"
                    /\ out' = calculate_comprehensive_rankings(df)
    /\ UNCHANGED <<df, cols, indicators_data, storeVars>>

(***************************************************************************)
(* spider_plot.py, flexible_spider_plot.py (template data).  The column    *)
(* "<metric>_normalized" of the result is entry [metric] of the row.       *)
(***************************************************************************)
InvertedMetrics == {"Unemployment_Rate"}

Scale(metric) ==
    CASE metric = "Education_Index" -> R(1)
      [] metric = "Safety_Index" -> R(10)
      [] OTHER -> R(100)

MinMax100(series, v) ==
    LET min_val == SeriesMin(series)
        max_val == SeriesMax(series)
    IN  RMul(RDiv(RSub(v, min_val), RSub(max_val, min_val)), R(100))

normalize_data_for_spider(t) ==
    Tabulate([i \in DOMAIN t |->
        [metric \in BaseCols |->
            IF metric = "GDP_per_Capita"
            THEN MinMax100(Column(t, metric), t[i][metric])
            ELSE IF metric \in InvertedMetrics
            THEN RSub(R(100), RMul(RDiv(t[i][metric], Scale(metric)), R(100)))
            ELSE IF metric = "Education_Index"
            THEN RMul(t[i][metric], R(100))
            ELSE IF metric = "Safety_Index"
            THEN RMul(RDiv(t[i][metric], R(10)), R(100))
            ELSE RMul(RDiv(t[i][metric], Scale(metric)), R(100))]], Len(t))

\* variant: the inverted metric is scaled like the others
normalize_default_data_for_spider_uninverted(t, present) ==
    Tabulate([i \in DOMAIN t |->
        [metric \in AllCols \cap present |->
            IF metric = "GDP_per_Capita"
            THEN IF RGt(SeriesMax(Column(t, metric)), SeriesMin(Column(t, metric)))
                 THEN MinMax100(Column(t, metric), t[i][metric])
                 ELSE R(50)
            ELSE RMul(RDiv(t[i][metric], Scale(metric)), R(100))]], Len(t))

normalize_default_data_for_spider(t, present) ==
    Tabulate([i \in DOMAIN t |->
        [metric \in AllCols \cap present |->
            IF metric = "GDP_per_Capita"
            THEN IF RGt(SeriesMax(Column(t, metric)), SeriesMin(Column(t, metric)))
                 THEN MinMax100(Column(t, metric), t[i][metric])
                 ELSE R(50)
            ELSE IF metric \in InvertedMetrics
            THEN RSub(R(100), RMul(RDiv(t[i][metric], Scale(metric)), R(100)))
            ELSE IF Scale(metric) = R(1)
            THEN RMul(t[i][metric], R(100))
            ELSE IF Scale(metric) = R(10)
            THEN RMul(RDiv(t[i][metric], R(10)), R(100))
            ELSE RMul(RDiv(t[i][metric], Scale(metric)), R(100))]], Len(t))

\* show_spider_plot_section of spider_plot.py
show_spider_plot_section ==
    /\ pc = "input"
    /\ IF BaseCols \subseteq cols
       THEN /\ pc' = "spider"
            /\ out' = normalize_data_for_spider(df)
       ELSE /\ pc' = "KeyError"
            /\ out' = <<>>
    /\ UNCHANGED <<df, cols, weights, indicators_data, storeVars>>

show_default_template_spider_plots ==
    /\ pc = "input"
    /\ pc' = "default_spider"
    /\ out' = normalize_default_data_for_spider(df, cols)
    /\ UNCHANGED <<df, cols, weights, indicators_data, storeVars>>

(***************************************************************************)
(* flexible_analysis.py, flexible_ranking.py (template data)               *)
(***************************************************************************)
\* variant: a dimension with an absent column is left undefined, not 0
calculate_sustainability_scores_undefined(t, present) ==
    LET max_gdp == SeriesMax(Column(t, "GDP_per_Capita"))
    IN  Tabulate([i \in DOMAIN t |->
        LET e == IF {"Air_Quality", "Green_Space", "Renewable_Energy"}
                        \subseteq present
                 THEN RDiv(RAdd(RAdd(RDiv(t[i].Air_Quality, R(100)),
                                     RDiv(t[i].Green_Space, R(100))),
                                RDiv(t[i].Renewable_Energy, R(100))), R(3))
                 ELSE NaN
            s == IF {"Education_Index", "Healthcare_Access", "Safety_Index"}
                        \subseteq present
                 THEN RDiv(RAdd(RAdd(t[i].Education_Index,
                                     RDiv(t[i].Healthcare_Access, R(100))),
                                RDiv(t[i].Safety_Index, R(10))), R(3))
                 ELSE NaN
            c == IF {"GDP_per_Capita", "Innovation_Index", "Unemployment_Rate"}
                        \subseteq present
                 THEN RDiv(RAdd(RAdd(RDiv(t[i].GDP_per_Capita, max_gdp),
                                     RDiv(t[i].Innovation_Index, R(100))),
                                RDiv(RSub(R(50), t[i].Unemployment_Rate), R(50))),
                           R(3))
                 ELSE NaN
        IN  [Environmental_Score |-> e, Social_Score |-> s, Economic_Score |-> c,
             Overall_Score |-> RDiv(RAdd(RAdd(e, s), c), R(3))]], Len(t))

\* flexible_analysis.py
calculate_sustainability_scores(t, present) ==
    LET max_gdp == SeriesMax(Column(t, "GDP_per_Capita"))
    IN  Tabulate([i \in DOMAIN t |->
        LET e == IF {"Air_Quality", "Green_Space", "Renewable_Energy"}
                        \subseteq present
                 THEN RDiv(RAdd(RAdd(RDiv(t[i].Air_Quality, R(100)),
                                     RDiv(t[i].Green_Space, R(100))),
                                RDiv(t[i].Renewable_Energy, R(100))), R(3))
                 ELSE R(0)
            s == IF {"Education_Index", "Healthcare_Access", "Safety_Index"}
                        \subseteq present
                 THEN RDiv(RAdd(RAdd(t[i].Education_Index,
                                     RDiv(t[i].Healthcare_Access, R(100))),
                                RDiv(t[i].Safety_Index, R(10))), R(3))
                 ELSE R(0)
            c == IF {"GDP_per_Capita", "Innovation_Index", "Unemployment_Rate"}
                        \subseteq present
                 THEN RDiv(RAdd(RAdd(RDiv(t[i].GDP_per_Capita, max_gdp),
                                     RDiv(t[i].Innovation_Index, R(100))),
                                RDiv(RSub(R(50), t[i].Unemployment_Rate), R(50))),
                           R(3))
                 ELSE R(0)
        IN  [Environmental_Score |-> e, Social_Score |-> s, Economic_Score |-> c,
             Overall_Score |-> RDiv(RAdd(RAdd(e, s), c), R(3))]], Len(t))

\* variant: the environmental mean is not divided by 100
calculate_default_sustainability_scores_percent(t, present) ==
    LET max_gdp == SeriesMax(Column(t, "GDP_per_Capita"))
    IN  Tabulate([i \in DOMAIN t |->
        LET e == IF {"Air_Quality", "Green_Space", "Renewable_Energy"}
                        \subseteq present
                 THEN RDiv(RAdd(RAdd(t[i].Air_Quality, t[i].Green_Space),
                                t[i].Renewable_Energy), R(3))
                 ELSE R(0)
            s == IF {"Education_Index", "Healthcare_Access", "Safety_Index"}
                        \subseteq present
                 THEN RDiv(RAdd(RAdd(t[i].Education_Index,
                                     RDiv(t[i].Healthcare_Access, R(100))),
                                RDiv(t[i].Safety_Index, R(10))), R(3))
                 ELSE R(0)
            c == IF {"GDP_per_Capita", "Innovation_Index", "Unemployment_Rate"}
                        \subseteq present
                 THEN RDiv(RAdd(RAdd(RDiv(t[i].GDP_per_Capita, max_gdp),
                                     RDiv(t[i].Innovation_Index, R(100))),
                                RDiv(RSub(R(50), t[i].Unemployment_Rate), R(50))),
                           R(3))
                 ELSE R(0)
        IN  [Environmental_Score |-> e, Social_Score |-> s, Economic_Score |-> c,
             Overall_Score |-> RDiv(RAdd(RAdd(e, s), c), R(3))]], Len(t))

\* flexible_ranking.py; df[env_cols].mean(axis=1) / 100
calculate_default_sustainability_scores(t, present) ==
    LET max_gdp == SeriesMax(Column(t, "GDP_per_Capita"))
    IN  Tabulate([i \in DOMAIN t |->
        LET e == IF {"Air_Quality", "Green_Space", "Renewable_Energy"}
                        \subseteq present
                 THEN RDiv(RDiv(RAdd(RAdd(t[i].Air_Quality, t[i].Green_Space),
                                     t[i].Renewable_Energy), R(3)), R(100))
                 ELSE R(0)
            s == IF {"Education_Index", "Healthcare_Access", "Safety_Index"}
                        \subseteq present
                 THEN RDiv(RAdd(RAdd(t[i].Education_Index,
                                     RDiv(t[i].Healthcare_Access, R(100))),
                                RDiv(t[i].Safety_Index, R(10))), R(3))
                 ELSE R(0)
            c == IF {"GDP_per_Capita", "Innovation_Index", "Unemployment_Rate"}
                        \subseteq present
                 THEN RDiv(RAdd(RAdd(RDiv(t[i].GDP_per_Capita, max_gdp),
                                     RDiv(t[i].Innovation_Index, R(100))),
                                RDiv(RSub(R(50), t[i].Unemployment_Rate), R(50))),
                           R(3))
                 ELSE R(0)
        IN  [Environmental_Score |-> e, Social_Score |-> s, Economic_Score |-> c,
             Overall_Score |-> RDiv(RAdd(RAdd(e, s), c), R(3))]], Len(t))

show_default_template_analysis ==
    /\ pc = "input"
    /\ pc' = "scored"
    /\ out' = calculate_sustainability_scores(df, cols)
    /\ UNCHANGED <<df, cols, weights, indicators_data, storeVars>>

show_default_template_ranking ==
    /\ pc = "input"
    /\ pc' = "default_scored"
    /\ out' = calculate_default_sustainability_scores(df, cols)
    /\ UNCHANGED <<df, cols, weights, indicators_data, storeVars>>

InitTemplate ==
    /\ df \in Tables
    /\ NoStore
    /\ cols \in ColumnSets
    /\ pc = "input"
    /\ out = <<>>
    /\ weights = <<>>
    /\ indicators_data = <<>>

NextTemplate ==
    \/ show_ranking_section
    \/ show_custom_weighted_ranking
    \/ show_spider_plot_section
    \/ show_default_template_spider_plots
    \/ show_default_template_analysis
    \/ show_default_template_ranking

SpecTemplate == InitTemplate /\ [][NextTemplate]_vars

(***************************************************************************)
(* Custom indicators (flexible_ranking.py, flexible_spider_plot.py).       *)
(* A city name is modelled by its position in the sort order of the names. *)
(***************************************************************************)
CityNames == {1, 2, 3}
IndicatorNames == {"x", "y"}
\* the values entered for an indicator
IndicatorValues(indicator) == IF indicator = "x" THEN {0, 1, 2} ELSE {0, 2}

\* the category the form stored with an entry
CategoryOf(city, indicator) ==
    IF indicator = "y" /\ city = 1 THEN "Social" ELSE "Environmental"

IndicatorRows ==
    UNION {{[City |-> c, Indicator_Name |-> n, Value |-> R(v),
             Category |-> CategoryOf(c, n)] :
                c \in CityNames, v \in IndicatorValues(n)} :
           n \in IndicatorNames}

\* stored datasets: at most one entry per city and indicator name
Datasets ==
    {d \in UNION {[1..n -> IndicatorRows] : n \in 1..MaxRows} :
        \A i, j \in DOMAIN d :
            (d[i].City = d[j].City /\ d[i].Indicator_Name = d[j].Indicator_Name)
                => i = j}

SliderTenths == {0, 20, 50}


\* Series.unique(): the distinct values in order of first appearance
RECURSIVE Unique(_)
Unique(s) ==
    IF s = <<>> THEN <<>>
    ELSE LET init == Unique(SubSeq(s, 1, Len(s) - 1))
             last == s[Len(s)]
         IN  IF \E i \in DOMAIN init : init[i] = last THEN init
             ELSE Append(init, last)

\* the elements of a set of city names in ascending order (a sorted index)
RECURSIVE Sorted(_)
Sorted(S) ==
    IF S = {} THEN <<>>
    ELSE LET m == CHOOSE x \in S : \A y \in S : x <= y
         IN  <<m>> \o Sorted(S \ {m})

\* Series.sort_values(ascending=False) on a series of <<label, value>>
\* pairs.  The default kind is numpy's quicksort, which is not stable: the
\* order of equal values depends on the numpy build, so the result is any
\* of the non-increasing arrangements of the series.
SortValuesDesc(s) ==
    LET n == Len(s)
        orders == {q \in [1..n -> 1..n] :
                    /\ \A k, l \in 1..n : k # l => q[k] # q[l]
                    /\ \A k, l \in 1..n : k < l =>
                           /\ ~RLt(s[q[k]][2], s[q[l]][2])
                           /\ IsNaN(s[q[k]][2]) => IsNaN(s[q[l]][2])}
    IN  {Tabulate([k \in 1..n |-> s[q[k]]], n) : q \in orders}

RECURSIVE SeqSum(_)
SeqSum(s) == IF s = <<>> THEN R(0) ELSE RAdd(SeqSum(SubSeq(s, 1, Len(s) - 1)), s[Len(s)])

Mean(s) ==
    LET nums == SelectSeq(s, LAMBDA v : ~IsNaN(v))
    IN  IF nums = <<>> THEN NaN ELSE RDiv(SeqSum(nums), R(Len(nums)))

\* the min-max normalization shared by the custom normalizers:
\* ((value - min) / (max - min)) * 100 if max > min, else 50
MinMaxOr50(values, v) ==
    LET min_val == SeriesMin(values)
        max_val == SeriesMax(values)
    IN  IF RGt(max_val, min_val)
        THEN RMul(RDiv(RSub(v, min_val), RSub(max_val, min_val)), R(100))
        ELSE R(50)

ValuesOf(data, indicator) ==
    Column(SelectSeq(data, LAMBDA r : r.Indicator_Name = indicator), "Value")

RECURSIVE Concat(_)
Concat(ss) == IF ss = <<>> THEN <<>> ELSE Head(ss) \o Concat(Tail(ss))

\* all_normalized of calculate_overall_scores / calculate_category_scores
all_normalized(data) ==
    LET inds == Unique(Column(data, "Indicator_Name"))
    IN  Concat(Tabulate([k \in DOMAIN inds |->
            LET subset == SelectSeq(data, LAMBDA r : r.Indicator_Name = inds[k])
                vals == Column(subset, "Value")
            IN  Tabulate([i \in DOMAIN subset |->
                    [City |-> subset[i].City,
                     Indicator_Name |-> subset[i].Indicator_Name,
                     Value |-> subset[i].Value,
                     Normalized_Value |-> MinMaxOr50(vals, subset[i].Value)]],
                    Len(subset))], Len(inds)))

\* groupby('City')['Normalized_Value'].mean().sort_values(ascending=False):
\* the series the sort may return
GroupMeanSorted(normalized) ==
    LET cities == Sorted({normalized[i].City : i \in DOMAIN normalized})
    IN  SortValuesDesc(Tabulate([k \in DOMAIN cities |->
            <<cities[k],
              Mean(Column(SelectSeq(normalized, LAMBDA r : r.City = cities[k]),
                          "Normalized_Value"))>>], Len(cities)))

calculate_overall_scores(data) == GroupMeanSorted(all_normalized(data))

calculate_category_scores(category_data) ==
    GroupMeanSorted(all_normalized(category_data))

\* the normalized value calculate_weighted_scores uses for a row
weighted_normalized(data, row) ==
    MinMaxOr50(ValuesOf(data, row.Indicator_Name), row.Value)

\* as calculate_weighted_scores, without the division by total_weight
calculate_weighted_scores_undivided(data, w) ==
    LET cities == Unique(Column(data, "City"))
        scored == Tabulate([k \in DOMAIN cities |->
            LET used == SelectSeq(data, LAMBDA r : r.City = cities[k]
                                                /\ w[r.Indicator_Name] > 0)
                total_weighted_score ==
                    SeqSum(Tabulate([i \in DOMAIN used |->
                        RMul(weighted_normalized(data, used[i]),
                             RDiv(R(w[used[i].Indicator_Name]), R(10)))], Len(used)))
            IN  <<cities[k], total_weighted_score, Len(used) > 0>>], Len(cities))
        city_scores == SelectSeq(scored, LAMBDA e : e[3])
    IN  SortValuesDesc(Tabulate([k \in DOMAIN city_scores |->
            <<city_scores[k][1], city_scores[k][2]>>], Len(city_scores)))

\* w: indicator name -> slider position in tenths (weights.get(indicator, 0));
\* the series the final sort may return
calculate_weighted_scores(data, w) ==
    LET cities == Unique(Column(data, "City"))
        scored == Tabulate([k \in DOMAIN cities |->
            LET used == SelectSeq(data, LAMBDA r : r.City = cities[k]
                                                /\ w[r.Indicator_Name] > 0)
                total_weighted_score ==
                    SeqSum(Tabulate([i \in DOMAIN used |->
                        RMul(weighted_normalized(data, used[i]),
                             RDiv(R(w[used[i].Indicator_Name]), R(10)))], Len(used)))
                total_weight ==
                    SeqSum(Tabulate([i \in DOMAIN used |->
                        RDiv(R(w[used[i].Indicator_Name]), R(10))], Len(used)))
            IN  <<cities[k], RDiv(total_weighted_score, total_weight),
                  RGt(total_weight, R(0))>>], Len(cities))
        city_scores == SelectSeq(scored, LAMBDA e : e[3])
    IN  SortValuesDesc(Tabulate([k \in DOMAIN city_scores |->
            <<city_scores[k][1], city_scores[k][2]>>], Len(city_scores)))

\* the cards shown: enumerate(scores.items(), 1)
display_ranking_cards(scores) ==
    Tabulate([k \in DOMAIN scores |->
        [rank |-> k, city |-> scores[k][1], score |-> scores[k][2]]], Len(scores))

show_custom_overall_ranking ==
    /\ pc = "input"
    /\ pc' = "overall"
    /\ \E city_scores \in calculate_overall_scores(indicators_data) :
            out' = [data |-> indicators_data,
                    normalized |-> all_normalized(indicators_data),
                    scores |-> city_scores,
                    cards |-> display_ranking_cards(city_scores)]
    /\ UNCHANGED <<df, cols, weights, indicators_data, storeVars>>

show_custom_category_ranking ==
    /\ pc = "input"
    /\ \E selected_category \in
            {indicators_data[i].Category : i \in DOMAIN indicators_data} :
        LET category_data ==
                SelectSeq(indicators_data, LAMBDA r : r.Category = selected_category)
        IN  /\ pc' = "category"
            /\ \E category_scores \in calculate_category_scores(category_data) :
                    out' = [data |-> category_data,
                            normalized |-> all_normalized(category_data),
                            scores |-> category_scores,
                            cards |-> display_ranking_cards(category_scores)]
    /\ UNCHANGED <<df, cols, weights, indicators_data, storeVars>>

\* show_custom_weighted_ranking of flexible_ranking.py with the
\* "Calculate Weighted Ranking" button pressed
show_custom_weighted_ranking_indicators ==
    /\ pc = "input"
    /\ \E w \in [IndicatorNames -> SliderTenths] :
        /\ weights' = w
        /\ pc' = "weighted"
        /\ \E weighted_scores \in calculate_weighted_scores(indicators_data, w) :
           LET used == SelectSeq(indicators_data, LAMBDA r : w[r.Indicator_Name] > 0)
           IN  out' = [data |-> indicators_data,
                       normalized |-> Tabulate([i \in DOMAIN used |->
                            [City |-> used[i].City,
                             Indicator_Name |-> used[i].Indicator_Name,
                             Value |-> used[i].Value,
                             Normalized_Value |->
                                weighted_normalized(indicators_data, used[i])]],
                            Len(used)),
                       scores |-> weighted_scores,
                       cards |-> display_ranking_cards(weighted_scores)]
    /\ UNCHANGED <<df, cols, indicators_data, storeVars>>

\* the ranking column of show_custom_indicator_ranking
show_custom_indicator_ranking ==
    /\ pc = "input"
    /\ \E selected_indicator \in
            {indicators_data[i].Indicator_Name : i \in DOMAIN indicators_data} :
        LET indicator_data ==
                SelectSeq(indicators_data,
                       LAMBDA r : r.Indicator_Name = selected_indicator)
        IN  /\ pc' = "indicator"
            /\ \E city_ranking \in
                    SortValuesDesc(Tabulate([i \in DOMAIN indicator_data |->
                        <<indicator_data[i].City, indicator_data[i].Value>>],
                        Len(indicator_data))) :
                    out' = [data |-> indicator_data,
                            normalized |-> <<>>,
                            scores |-> city_ranking,
                            cards |-> display_ranking_cards(city_ranking)]
    /\ UNCHANGED <<df, cols, weights, indicators_data, storeVars>>

\* DataFrame.pivot(index='City', columns='Indicator_Name', values='Value')
\* followed by fillna(0): city -> indicator -> value, 0 where nothing is stored
pivot_fillna0(filtered) ==
    [c \in {filtered[i].City : i \in DOMAIN filtered} |->
        [n \in {filtered[i].Indicator_Name : i \in DOMAIN filtered} |->
            IF \E i \in DOMAIN filtered :
                    filtered[i].City = c /\ filtered[i].Indicator_Name = n
            THEN filtered[CHOOSE i \in DOMAIN filtered :
                    filtered[i].City = c /\ filtered[i].Indicator_Name = n].Value
            ELSE R(0)]]

normalize_custom_indicators(pivot_data) ==
    [c \in DOMAIN pivot_data |->
        [n \in DOMAIN pivot_data[c] |->
            LET cities == Sorted(DOMAIN pivot_data)
                column == Tabulate([k \in DOMAIN cities |-> pivot_data[cities[k]][n]],
                                   Len(cities))
            IN  MinMaxOr50(column, pivot_data[c][n])]]

\* the normalized table create_custom_spider_plot draws
create_custom_spider_plot(data, cities, indicators) ==
    normalize_custom_indicators(pivot_fillna0(
        SelectSeq(data, LAMBDA r : r.City \in cities /\ r.Indicator_Name \in indicators)))

show_custom_category_spider ==
    /\ pc = "input"
    /\ \E selected_category \in
            {indicators_data[i].Category : i \in DOMAIN indicators_data} :
        LET category_data ==
                SelectSeq(indicators_data, LAMBDA r : r.Category = selected_category)
            available_cities == {category_data[i].City : i \in DOMAIN category_data}
            category_indicators ==
                {category_data[i].Indicator_Name : i \in DOMAIN category_data}
        IN  \E selected_cities \in SUBSET available_cities :
                IF selected_cities = {}
                THEN /\ pc' = "spider_none"
                     /\ out' = <<>>
                ELSE /\ pc' = "custom_spider"
                     /\ out' = [data |-> SelectSeq(category_data,
                                          LAMBDA r : r.City \in selected_cities),
                                normalized |-> create_custom_spider_plot(
                                    category_data, selected_cities,
                                    category_indicators)]
    /\ UNCHANGED <<df, cols, weights, indicators_data, storeVars>>

InitCustom ==
    /\ indicators_data \in Datasets
    /\ NoStore
    /\ df = <<>>
    /\ cols = {}
    /\ pc = "input"
    /\ out = <<>>
    /\ weights = <<>>

NextCustom ==
    \/ show_custom_overall_ranking
    \/ show_custom_category_ranking
    \/ show_custom_weighted_ranking_indicators
    \/ show_custom_indicator_ranking
    \/ show_custom_category_spider

SpecCustom == InitCustom /\ [][NextCustom]_vars

(***************************************************************************)
(* Properties of the template scoring and ranking (SpecTemplate).          *)
(***************************************************************************)
GDPAllEqual == \A i, j \in DOMAIN df : df[i].GDP_per_Capita = df[j].GDP_per_Capita

\* number of rows of s whose value is strictly higher than that of row i
Higher(s, i) == Cardinality({k \in DOMAIN s : RGt(s[k], s[i])})

ScoreRankColumns == {<<"Overall_Score", "Overall_Rank">>,
                     <<"Environmental_Score", "Environmental_Rank">>,
                     <<"Social_Score", "Social_Rank">>,
                     <<"Economic_Score", "Economic_Rank">>}

\* C2: when all cities have the same GDP_per_Capita, every template
\* normalizer gives each city the midpoint for that metric: GDP_norm = 0.5
\* in calculate_comprehensive_rankings, GDP_per_Capita_normalized = 50 in
\* normalize_data_for_spider and normalize_default_data_for_spider.
C2_GDPMidpoint ==
    /\ (pc = "ranked" /\ GDPAllEqual) =>
            \A i \in DOMAIN out : out[i].GDP_norm = <<1, 2>>
    /\ (pc = "spider" /\ GDPAllEqual) =>
            \A i \in DOMAIN out : out[i]["GDP_per_Capita"] = R(50)
    /\ (pc = "default_spider" /\ GDPAllEqual /\ "GDP_per_Capita" \in cols) =>
            \A i \in DOMAIN out : out[i]["GDP_per_Capita"] = R(50)

\* C3: after calculate_comprehensive_rankings every city whose score is the
\* maximum of the score column has rank 1, for each of the overall,
\* environmental, social and economic columns.
C3_TopScoreRankOne ==
    pc = "ranked" =>
        \A sr \in ScoreRankColumns : \A i \in DOMAIN out :
            out[i][sr[1]] = SeriesMax(Column(out, sr[1])) => out[i][sr[2]] = R(1)

\* C4: in calculate_comprehensive_rankings and show_custom_weighted_ranking
\* two cities with the same score have the same rank, and that rank is
\* 1 + the number of cities with a strictly higher score.
C4_MinRankRule ==
    /\ pc = "ranked" =>
        \A sr \in ScoreRankColumns : \A i, j \in DOMAIN out :
            out[i][sr[1]] = out[j][sr[1]] =>
                /\ out[i][sr[2]] = out[j][sr[2]]
                /\ out[i][sr[2]] = R(1 + Higher(Column(out, sr[1]), i))
    /\ pc = "custom" =>
        \A i, j \in DOMAIN out :
            out[i].Custom_Score = out[j].Custom_Score =>
                /\ out[i].Custom_Rank = out[j].Custom_Rank
                /\ out[i].Custom_Rank = R(1 + Higher(Column(out, "Custom_Score"), i))

\* C5 as stated: the Overall_Rank numbers assigned are exactly 1..k for
\* some k (no rank number is skipped).
C5_RanksNotSkipped ==
    pc = "ranked" =>
        \E k \in 0..Len(out) :
            {out[i].Overall_Rank : i \in {j \in DOMAIN out : IsNum(out[j].Overall_Rank)}}
                = {R(r) : r \in 1..k}

\* C5 amended: Overall_Rank is a minimum rank.  Some city has rank 1
\* whenever the scores are defined; after a tie of m cities at rank r the
\* cities with the next lower score have rank r + m (rank numbers r+1 ..
\* r+m-1 are skipped); a city whose score is undefined has no rank.
C5_MinRanksSkipAfterTie ==
    pc = "ranked" =>
        LET s == Column(out, "Overall_Score")
        IN  /\ (\E i \in DOMAIN out : IsNum(s[i])) =>
                    \E i \in DOMAIN out : out[i].Overall_Rank = R(1)
            /\ \A i \in DOMAIN out : IsNaN(s[i]) => IsNaN(out[i].Overall_Rank)
            /\ \A i, j \in DOMAIN out :
                (/\ RLt(s[j], s[i])
                 /\ ~\E k \in DOMAIN out : RLt(s[j], s[k]) /\ RLt(s[k], s[i]))
                => out[j].Overall_Rank =
                     RAdd(out[i].Overall_Rank,
                          R(Cardinality({k \in DOMAIN out : s[k] = s[i]})))

\* two cities tied at rank 1 and a third city at rank 3
C5_Witness ==
    /\ pc = "ranked"
    /\ \E i, j, k \in DOMAIN out :
        /\ i # j
        /\ out[i].Overall_Rank = R(1)
        /\ out[j].Overall_Rank = R(1)
        /\ out[k].Overall_Rank = R(3)

EqualPositiveWeights ==
    weights[1] = weights[2] /\ weights[2] = weights[3] /\ weights[1] > 0

C9_CustomScoreBetweenDimensions ==
    pc = "custom" =>
        \A i \in DOMAIN out :
            LET d == <<out[i].Environmental_Score, out[i].Social_Score,
                       out[i].Economic_Score>>
            IN  /\ RAdd(RAdd(out[i].env_weight_norm, out[i].social_weight_norm),
                        out[i].economic_weight_norm) = R(1)
                /\ \E lo \in 1..3 : RLe(d[lo], out[i].Custom_Score)
                /\ \E hi \in 1..3 : RLe(out[i].Custom_Score, d[hi])

\* C10: the four scores of calculate_sustainability_scores and
\* calculate_default_sustainability_scores are numbers in [0,1] for every
\* city of a table whose values are within the form ranges.
C10_ScoresInUnitInterval ==
    pc \in {"scored", "default_scored"} =>
        \A i \in DOMAIN out :
            \A c \in {"Environmental_Score", "Social_Score",
                      "Economic_Score", "Overall_Score"} :
                RLe(R(0), out[i][c]) /\ RLe(out[i][c], R(1))

(***************************************************************************)
(* Properties of the custom-indicator normalizers and rankings             *)
(* (SpecCustom).                                                           *)
(***************************************************************************)
\* the stored values of an indicator in a dataset all coincide
Coincide(data, indicator) ==
    \A i, j \in DOMAIN data :
        (data[i].Indicator_Name = indicator /\ data[j].Indicator_Name = indicator)
            => data[i].Value = data[j].Value

C6_CardsShowMinRank ==
    pc \in {"overall", "category", "weighted", "indicator"} =>
        \A a, b \in DOMAIN out.cards :
            out.cards[a].score = out.cards[b].score =>
                /\ out.cards[a].rank = out.cards[b].rank
                /\ out.cards[a].rank =
                     1 + Cardinality({k \in DOMAIN out.cards :
                            RGt(out.cards[k].score, out.cards[a].score)})

EqualPositiveIndicatorWeights ==
    /\ \A n \in IndicatorNames : weights[n] > 0
    /\ \A n, m \in IndicatorNames : weights[n] = weights[m]

Position(series, city) == CHOOSE k \in DOMAIN series : series[k][1] = city

Ratings == {-2, -1, 0, 1, 2}

\* indicator names, as sequences of characters
NameX == <<"x">>
NameY == <<"y">>
NameZ == <<"z">>
IndicatorList == <<NameX, NameY, NameZ>>

OffDiagonal(n) == {p \in (1..n) \X (1..n) : p[1] # p[2]}

\* the n x n matrices with ratings off the diagonal and 0 on it
ZeroDiagonalMatrices(n) ==
    {[i \in 1..n |-> [j \in 1..n |-> IF i = j THEN 0 ELSE f[<<i, j>>]]] :
        f \in [OffDiagonal(n) -> Ratings]}

\* matrices handed to show_influence_analysis
AnalysisMatrices == [1..2 -> [1..2 -> Ratings]] \cup ZeroDiagonalMatrices(3)

\* variant: signed sum
RECURSIVE SumSigned(_)
SumSigned(s) == IF s = <<>> THEN 0 ELSE SumSigned(Tail(s)) + Head(s)

\* np.sum(np.abs(v))
RECURSIVE SumAbs(_)
SumAbs(s) == IF s = <<>> THEN 0 ELSE SumAbs(Tail(s)) + Abs(Head(s))

\* np.sum(np.abs(matrix), axis=1)[i]
Activity(matrix, i) == SumAbs(matrix[i])

\* np.sum(np.abs(matrix), axis=0)[i]
Passivity(matrix, i) == SumAbs([k \in DOMAIN matrix |-> matrix[k][i]])

\* Series.median(): the middle of the sorted values, the mean of the two
\* middle ones when their number is even
Median(series) ==
    LET n == Len(series)
        sorted == CHOOSE q \in SortValuesDesc([k \in 1..n |-> <<k, series[k]>>]) : TRUE
    IN  IF n % 2 = 1 THEN sorted[(n + 1) \div 2][2]
        ELSE RDiv(RAdd(sorted[n \div 2][2], sorted[n \div 2 + 1][2]), R(2))

\* variant: the boundary case counts as high
show_quadrant_analysis_inclusive(results_df) ==
    LET median_activity == Median(Column(results_df, "Activity"))
        median_passivity == Median(Column(results_df, "Passivity"))
        Listed(Keep(_)) == {results_df[k].Indicator : k \in {l \in DOMAIN results_df : Keep(results_df[l])}}
    IN  [Ambivalent |-> Listed(LAMBDA r : RLe(median_passivity, r.Passivity) /\ RLe(median_activity, r.Activity)),
         Active |-> Listed(LAMBDA r : RLt(r.Passivity, median_passivity) /\ RLe(median_activity, r.Activity)),
         Passive |-> Listed(LAMBDA r : RLe(median_passivity, r.Passivity) /\ RLt(r.Activity, median_activity)),
         Indifferent |-> Listed(LAMBDA r : RLt(r.Passivity, median_passivity) /\ RLt(r.Activity, median_activity))]

\* the indicators listed under each quadrant
show_quadrant_analysis(results_df) ==
    LET median_activity == Median(Column(results_df, "Activity"))
        median_passivity == Median(Column(results_df, "Passivity"))
        Listed(Keep(_)) == {results_df[k].Indicator : k \in {l \in DOMAIN results_df : Keep(results_df[l])}}
    IN  [Ambivalent |-> Listed(LAMBDA r : RGt(r.Passivity, median_passivity) /\ RGt(r.Activity, median_activity)),
         Active |-> Listed(LAMBDA r : RLe(r.Passivity, median_passivity) /\ RGt(r.Activity, median_activity)),
         Passive |-> Listed(LAMBDA r : RGt(r.Passivity, median_passivity) /\ RLe(r.Activity, median_activity)),
         Indifferent |-> Listed(LAMBDA r : RLe(r.Passivity, median_passivity) /\ RLe(r.Activity, median_activity))]

\* results_df of show_influence_analysis for a matrix with one row and
\* column per indicator: any of the orders sort_values can give
influence_results(matrix, indicators) ==
    LET n == Len(indicators)
        rows == Tabulate([i \in 1..n |->
                    [Indicator |-> indicators[i],
                     Activity |-> R(Activity(matrix, i)),
                     Passivity |-> R(Passivity(matrix, i)),
                     Total_Influence |-> RAdd(R(Activity(matrix, i)),
                                              R(Passivity(matrix, i)))]], n)
        sorted == SortValuesDesc([i \in 1..n |-> <<i, rows[i].Total_Influence>>])
    IN  {Tabulate([k \in 1..n |-> rows[q[k][1]]], n) : q \in sorted}

\* pd.DataFrame({...}) needs arrays of one length: a matrix whose size is
\* not the number of indicators raises ValueError
show_influence_analysis ==
    /\ pc = "matrix_input"
    /\ IF Len(out.matrix) # Len(out.indicators)
       THEN /\ pc' = "ValueError"
            /\ out' = [matrix |-> out.matrix, indicators |-> out.indicators]
       ELSE \E results_df \in influence_results(out.matrix, out.indicators) :
            /\ pc' = "analysis"
            /\ out' = [matrix |-> out.matrix, indicators |-> out.indicators,
                       results_df |-> results_df,
                       quadrants |-> show_quadrant_analysis(results_df)]
    /\ UNCHANGED <<df, cols, weights, indicators_data, storeVars>>

InitAnalysis ==
    /\ NoStore
    /\ df = <<>>
    /\ cols = {}
    /\ weights = <<>>
    /\ indicators_data = <<>>
    /\ pc = "matrix_input"
    /\ \E matrix \in AnalysisMatrices :
           out = [matrix |-> matrix,
                  indicators |-> SubSeq(IndicatorList, 1, Len(matrix))]

NextAnalysis == show_influence_analysis

SpecAnalysis == InitAnalysis /\ [][NextAnalysis]_vars

(***************************************************************************)
(* custom_indicators.py: the custom indicator store.  A stored row is      *)
(* [City, Indicator_Name]; the columns Country, Description, Value, Unit,  *)
(* Source, Category and Data_Entry_Date are carried along with the row and *)
(* are not modelled.  Names are sequences of characters.  The CSV round    *)
(* trip (to_csv, read_csv) returns such rows as they were written.         *)
(***************************************************************************)
\* str.strip(): without leading and trailing blanks
RECURSIVE Strip(_)
Strip(name) ==
    IF name = <<>> THEN <<>>
    ELSE IF Head(name) = " " THEN Strip(Tail(name))
    ELSE IF name[Len(name)] = " " THEN Strip(SubSeq(name, 1, Len(name) - 1))
    ELSE name

\* indicator['Indicator_Name'].replace(' ', '_').replace('-', '_')
ColName(name) ==
    [k \in DOMAIN name |-> IF name[k] \in {" ", "-"} THEN "_" ELSE name[k]]

\* the DataFrame read from a file: empty when the file is missing
DataOf(csv) == IF csv.exists THEN csv.rows ELSE <<>>

\* variant: an empty table is stored when the file is missing
LoadCustom_always(ss, csv) ==
    [ss EXCEPT !.custom_indicators_data = File(DataOf(csv))]

\* the session after load_custom_indicators_data(): the rows read are
\* stored; FileNotFoundError stores nothing
LoadCustom(ss, csv) ==
    IF csv.exists THEN [ss EXCEPT !.custom_indicators_data = File(csv.rows)]
    ELSE ss

\* a missing cell of a DataFrame (NaN); no text typed into a form equals it
NaNCell == "<NaN>"

\* texts that pd.read_csv takes for a missing cell (its default na_values)
NAStrings == {"", "NA", "N/A", "NaN", "nan", "null", "NULL", "None"}

\* pd.read_csv of the City column of cities_data.csv
ReadCities(rows) ==
    [i \in DOMAIN rows |->
        [rows[i] EXCEPT !.City = IF @ \in NAStrings THEN NaNCell ELSE @]]

\* DataFrame.to_csv of the City column: a missing cell is written empty
WriteCities(rows) ==
    [i \in DOMAIN rows |->
        [rows[i] EXCEPT !.City = IF @ = NaNCell THEN "" ELSE @]]

\* a missing Indicator_Name cell; names are sequences of characters
NaNName == <<"<NaN>">>

\* the names among NAStrings that are spelled here: the empty text and NA
NANames == {<<>>, <<"N", "A">>}

\* pd.read_csv of the City and Indicator_Name columns of custom_indicators.csv
ReadIndicators(rows) ==
    [i \in DOMAIN rows |->
        [rows[i] EXCEPT !.City = IF @ \in NAStrings THEN NaNCell ELSE @,
                        !.Indicator_Name = IF @ \in NANames THEN NaNName ELSE @]]

\* DataFrame.to_csv of these columns
WriteIndicators(rows) ==
    [i \in DOMAIN rows |->
        [rows[i] EXCEPT !.City = IF @ = NaNCell THEN "" ELSE @,
                        !.Indicator_Name = IF @ = NaNName THEN <<>> ELSE @]]

\* the session after load_collected_data(): a non-empty table is stored
LoadCollected(ss, csv) ==
    IF csv.exists /\ csv.rows # <<>>
    THEN [ss EXCEPT !.city_data = File(ReadCities(csv.rows))]
    ELSE ss

\* the DataFrame load_collected_data() returns
load_collected_data(csv) == IF csv.exists THEN ReadCities(csv.rows) ELSE <<>>

\* the non-empty city names research_data.get('city1', '') .. 'city4'
TargetCities(rd) ==
    IF rd.exists THEN SelectSeq(rd.city, LAMBDA c : c # "") ELSE <<>>

Range(s) == {s[k] : k \in DOMAIN s}

\* variant: any one configured city with data is enough
check_analysis_readiness_any(rd, csv) ==
    IF ~rd.exists THEN FALSE
    ELSE IF Len(TargetCities(rd)) # 4 THEN FALSE
    ELSE IF DataOf(csv) = <<>> THEN FALSE
    ELSE Range(TargetCities(rd)) \cap {r.City : r \in Range(DataOf(csv))} # {}

check_analysis_readiness(rd, csv) ==
    IF ~rd.exists THEN FALSE
    ELSE IF Len(TargetCities(rd)) # 4 THEN FALSE
    ELSE IF DataOf(csv) = <<>> THEN FALSE
    ELSE Range(TargetCities(rd)) \subseteq {r.City : r \in Range(DataOf(csv))}

\* variant: indicators stored for at least one configured city
get_common_indicators_any(rd, csv) ==
    IF ~rd.exists THEN <<>>
    ELSE IF Len(TargetCities(rd)) # 4 THEN <<>>
    ELSE IF DataOf(csv) = <<>> THEN <<>>
    ELSE LET data == DataOf(csv)
             all_indicators == Unique(Column(data, "Indicator_Name"))
         IN  SelectSeq(all_indicators, LAMBDA indicator :
                 Range(TargetCities(rd)) \cap
                     {r.City : r \in {q \in Range(data) : q.Indicator_Name = indicator}} # {})

get_common_indicators(rd, csv) ==
    IF ~rd.exists THEN <<>>
    ELSE IF Len(TargetCities(rd)) # 4 THEN <<>>
    ELSE IF DataOf(csv) = <<>> THEN <<>>
    ELSE LET data == DataOf(csv)
             all_indicators == Unique(Column(data, "Indicator_Name"))
         IN  SelectSeq(all_indicators, LAMBDA indicator :
                 Range(TargetCities(rd)) \subseteq
                     {r.City : r \in {q \in Range(data) : q.Indicator_Name = indicator}})

\* one record per configured city slot that has stored indicators; the
\* indicator columns of the record are the converted names
convert_custom_indicators_for_analysis(rd, csv) ==
    LET data == DataOf(csv)
        city(i) == IF rd.exists THEN rd.city[i] ELSE ""
        slots == SelectSeq(<<1, 2, 3, 4>>, LAMBDA i :
                     /\ city(i) # ""
                     /\ \E r \in Range(data) : r.City = city(i))
    IN  IF data = <<>> THEN <<>>
        ELSE Tabulate([k \in DOMAIN slots |->
                 [City |-> city(slots[k]),
                  Data_Source |-> "Custom Indicators",
                  columns |-> {ColName(r.Indicator_Name) :
                                  r \in {q \in Range(data) : q.City = city(slots[k])}}]],
                 Len(slots))

\* the session after update_session_state_for_analysis()
update_session_state_for_analysis(ss, rd, csv) ==
    LET loaded == IF rd.exists /\ Len(TargetCities(rd)) = 4
                  THEN LoadCustom(ss, csv) ELSE ss
        analysis_data == convert_custom_indicators_for_analysis(rd, csv)
    IN  IF check_analysis_readiness(rd, csv) /\ analysis_data # <<>>
        THEN [loaded EXCEPT !.city_data = File(analysis_data),
                            !.use_custom_indicators = TRUE,
                            !.data_collection_complete = TRUE,
                            !.data_entered = TRUE]
        ELSE loaded

\* the session after save_custom_indicators_data(updated_data) has written the file
save_custom_indicators_data(ss, rd, updated_data) ==
    update_session_state_for_analysis(
        [ss EXCEPT !.custom_indicators_data = File(updated_data)], rd,
        File(updated_data))

(***************************************************************************)
(* main.py: one run of the script.  Every user event starts a run: the     *)
(* prologue (session initialisation and data loading), the handler of the  *)
(* event, and then either st.rerun(), which starts a run without event,    *)
(* or the rest of the same run.                                            *)
(***************************************************************************)
\* show_initial_setup: research_data is {} when the session has none
InitialSetup(rd) ==
    IF rd.exists THEN rd ELSE [exists |-> TRUE, city |-> <<"", "", "", "">>]

\* main, "Load any existing collected data" and "Check which data source
\* to use"
Prologue(ss, rd, ccsv, csv) ==
    LET existing_data == load_collected_data(ccsv)
        custom_indicators_data == convert_custom_indicators_for_analysis(rd, csv)
        loaded == LoadCustom(LoadCollected(ss, ccsv), csv)
    IN  IF custom_indicators_data # <<>>
        THEN [loaded EXCEPT !.data_entered = TRUE,
                            !.data_collection_complete = TRUE,
                            !.use_custom_indicators = TRUE,
                            !.city_data = File(custom_indicators_data)]
        ELSE IF existing_data # <<>>
        THEN [loaded EXCEPT !.data_entered = TRUE,
                            !.data_collection_complete = TRUE,
                            !.use_custom_indicators = FALSE]
        ELSE loaded

\* main, step 3 in custom-indicator mode: the Analysis Dashboard sections
\* are rendered
DashboardRendered(ss, rd, csv) ==
    /\ ss.city_data.exists /\ ss.city_data.rows # <<>>
    /\ ss.use_custom_indicators
    /\ convert_custom_indicators_for_analysis(rd, csv) # <<>>
    /\ check_analysis_readiness(rd, csv)

\* main, step 3 ("Analysis Phase"): the session after it
Epilogue(ss, rd, ccsv, csv) ==
    IF ss.city_data.exists /\ ss.city_data.rows # <<>>
    THEN IF ss.use_custom_indicators
         THEN IF DashboardRendered(ss, rd, csv)
              THEN [LoadCustom(ss, csv) EXCEPT !.city_data =
                        File(convert_custom_indicators_for_analysis(rd, csv))]
              ELSE LoadCustom(ss, csv)
         ELSE LoadCollected(ss, ccsv)
    ELSE ss

\* show_influence_matrix_section goes on to the matrix input
MatrixInputOffered(rd, csv) == ~(Len(get_common_indicators(rd, csv)) < 2)

\* df.values of the file, None (NoFile) on FileNotFoundError
load_influence_matrix(csv) == IF csv.exists THEN File(csv.rows) ELSE NoFile

\* np.zeros((n, n))
Zeros(n) == [i \in 1..n |-> [j \in 1..n |-> 0]]

\* create_influence_matrix_input(indicators, existing_matrix) in a session
\* with the selectbox states widgets (key influence_i_j).  A selectbox
\* returns its state; one rendered for the first time takes the entry of
\* the matrix as its state.  The matrix has the size of existing_matrix:
\* when that is larger than the indicator list only the upper left block
\* is assigned, when it is smaller matrix[0, m] raises IndexError after
\* the selectboxes of row 0 within the matrix have been rendered.
create_influence_matrix_input(indicators, existing_matrix, widgets) ==
    LET n == Len(indicators)
        matrix == IF existing_matrix.exists THEN existing_matrix.rows ELSE Zeros(n)
        m == Len(matrix)
        value(p) == IF p \in DOMAIN widgets THEN widgets[p] ELSE matrix[p[1]][p[2]]
    IN  IF m < n
        THEN [error |-> "IndexError",
              matrix |-> matrix,
              widgets |-> [p \in {<<1, j>> : j \in 2..m} |-> value(p)]]
        ELSE [error |-> "",
              matrix |-> [i \in 1..m |-> [j \in 1..m |->
                             IF i <= n /\ j <= n
                             THEN IF i = j THEN 0 ELSE value(<<i, j>>)
                             ELSE matrix[i][j]]],
              widgets |-> [p \in OffDiagonal(n) |-> value(p)]]

\* show_influence_matrix_section up to the matrix input, as part of the
\* dashboard of a run: what it returns and the selectbox states it leaves.
\* Selectboxes that a run does not render lose their state.
InfluenceSection(ss, rd, csv, mcsv) ==
    IF DashboardRendered(ss, rd, csv) /\ MatrixInputOffered(rd, csv)
    THEN create_influence_matrix_input(get_common_indicators(rd, csv),
                                       load_influence_matrix(mcsv), ss.widgets)
    ELSE [error |-> "not offered", matrix |-> <<>>, widgets |-> <<>>]

\* main, step 3 with the influence section of the dashboard
AnalysisPhase(ss, rd, ccsv, csv, mcsv) ==
    [Epilogue(ss, rd, ccsv, csv) EXCEPT
        !.widgets = InfluenceSection(ss, rd, csv, mcsv).widgets]

\* main, step 2 ("Choose Your Data Entry Method"), shown once the setup is
\* complete: existing_custom and existing_default are loaded, and the
\* custom indicator page loads its existing_data
Step2(ss, ccsv, csv) ==
    IF ss.setup_complete
    THEN LoadCustom(LoadCollected(LoadCustom(ss, csv), ccsv), csv)
    ELSE ss

\* the session when the handlers of the data entry pages start
Started(ss, rd, ccsv, csv) == Step2(Prologue(ss, rd, ccsv, csv), ccsv, csv)

\* a run without event, as started by st.rerun()
Rerun(ss, rd, ccsv, csv, mcsv) ==
    AnalysisPhase(Started(ss, rd, ccsv, csv), rd, ccsv, csv, mcsv)

(***************************************************************************)
(* The handlers of the data entry pages.                                   *)
(***************************************************************************)
\* city names confirmed in the setup form
SetupCities == {<<"A", "B", "C", "D">>, <<"A", "A", "B", "B">>}

\* names typed into the "Indicator Name" field
SubmittedNames == {<<"x">>, <<" ", "x">>, <<" ">>}

\* variant: only the columns the analysis reads are required
RequiredCols_lenient == {"City", "Indicator_Name", "Value"}

\* required_cols of the upload
RequiredCols == {"City", "Indicator_Name", "Description", "Value", "Unit", "Source"}

\* files offered to the uploader: unreadable, without the Source column,
\* and a table with one indicator for each of four cities
Uploads ==
    {[readable |-> FALSE, columns |-> {}, rows |-> <<>>],
     [readable |-> TRUE, columns |-> RequiredCols \ {"Source"},
      rows |-> <<[City |-> "A", Indicator_Name |-> NameX]>>],
     [readable |-> TRUE, columns |-> RequiredCols \cup {"Category"},
      rows |-> <<[City |-> "A", Indicator_Name |-> NameX],
                 [City |-> "B", Indicator_Name |-> NameX],
                 [City |-> "C", Indicator_Name |-> NameX],
                 [City |-> "D", Indicator_Name |-> NameX]>>]}

\* a row of cities_data.csv; its indicator columns are not modelled
CityRow(city) == [City |-> city, Data_Source |-> "Default + User Input", columns |-> {}]

\* a run of main without user event; out tells what the run rendered
main ==
    /\ pc' = "main"
    /\ research_data' = InitialSetup(research_data)
    /\ LET started == Started(session_state, research_data', cities_data_csv,
                              custom_indicators_csv)
           dashboard == DashboardRendered(started, research_data',
                                          custom_indicators_csv)
       IN  out' = [message |-> "",
                   custom_mode |-> started.use_custom_indicators,
                   dashboard |-> dashboard,
                   matrix_input |-> dashboard /\ MatrixInputOffered(
                                       research_data', custom_indicators_csv)]
    /\ session_state' = Rerun(session_state, research_data', cities_data_csv,
                              custom_indicators_csv, influence_matrix_csv)
    /\ UNCHANGED <<df, cols, weights, indicators_data, custom_indicators_csv,
                   cities_data_csv, influence_matrix_csv, sessions>>

\* show_initial_setup, "Start Data Collection" with four city names
start_data_collection ==
    \E cities \in SetupCities :
        /\ pc' = "start_data_collection"
        /\ out' = [message |-> "Setup complete"]
        /\ research_data' = [exists |-> TRUE, city |-> cities]
        /\ cities_data_csv' = File(<<>>)
        /\ session_state' =
               Rerun([Prologue(session_state, research_data, cities_data_csv,
                               custom_indicators_csv)
                         EXCEPT !.setup_complete = TRUE],
                     research_data', cities_data_csv', custom_indicators_csv, influence_matrix_csv)
        /\ UNCHANGED <<df, cols, weights, indicators_data, custom_indicators_csv,
                       influence_matrix_csv, sessions>>

\* show_data_entry, "Save Data" for the first city: save_city_data
submit_city_data ==
    /\ session_state.setup_complete
    /\ LET city == research_data.city[1]
           kept == SelectSeq(load_collected_data(cities_data_csv),
                             LAMBDA r : r.City # city)
           saved == Append(kept, CityRow(city))
           started == Started(session_state, research_data, cities_data_csv,
                              custom_indicators_csv)
       IN  /\ pc' = "save_city_data"
           /\ out' = [message |-> "Data saved"]
           /\ cities_data_csv' = File(WriteCities(saved))
           /\ session_state' =
                  Rerun([started EXCEPT !.city_data = File(saved)],
                        research_data, cities_data_csv', custom_indicators_csv, influence_matrix_csv)
    /\ UNCHANGED <<df, cols, weights, indicators_data, research_data,
                   custom_indicators_csv, influence_matrix_csv, sessions>>

\* indicator_name in city_indicators['Indicator_Name'].values
IsDuplicate(existing_data, city_name, indicator_name) ==
    \E r \in Range(existing_data) :
        r.City = city_name /\ r.Indicator_Name = indicator_name

\* the session and file after add_custom_indicator(new_indicator)
add_custom_indicator(ss, rd, csv, new_indicator) ==
    LET existing_data == ReadIndicators(DataOf(csv))
        updated_data == IF existing_data = <<>> THEN <<new_indicator>>
                        ELSE existing_data \o <<new_indicator>>
    IN  [csv |-> File(WriteIndicators(updated_data)),
         ss |-> update_session_state_for_analysis(
                    save_custom_indicators_data(LoadCustom(ss, csv), rd, updated_data),
                    rd, File(updated_data))]

\* show_city_indicator_entry, "Add Indicator" for a configured city.  The
\* number of stored rows is capped at MaxRows.
submit_add_indicator ==
    /\ session_state.setup_complete
    /\ Len(DataOf(custom_indicators_csv)) < MaxRows
    /\ \E city_name \in Range(research_data.city), indicator_name \in SubmittedNames :
        LET started == Started(session_state, research_data, cities_data_csv,
                               custom_indicators_csv)
            existing_data == DataOf(custom_indicators_csv)
        IN  /\ pc' = "add_indicator"
            /\ IF Strip(indicator_name) = <<>>
               THEN /\ out' = [message |-> "Please fill in all required fields"]
                    /\ custom_indicators_csv' = custom_indicators_csv
                    /\ session_state' = AnalysisPhase(started, research_data,
                                            cities_data_csv, custom_indicators_csv, influence_matrix_csv)
               ELSE IF IsDuplicate(existing_data, city_name, indicator_name)
               THEN /\ out' = [message |-> "already exists"]
                    /\ custom_indicators_csv' = custom_indicators_csv
                    /\ session_state' = AnalysisPhase(started, research_data,
                                            cities_data_csv, custom_indicators_csv, influence_matrix_csv)
               ELSE LET added == add_custom_indicator(started, research_data,
                                     custom_indicators_csv,
                                     [City |-> city_name,
                                      Indicator_Name |-> Strip(indicator_name)])
                    IN  /\ out' = [message |-> "Added"]
                        /\ custom_indicators_csv' = added.csv
                        /\ session_state' = Rerun(added.ss, research_data,
                                                cities_data_csv, added.csv, influence_matrix_csv)
    /\ UNCHANGED <<df, cols, weights, indicators_data, research_data,
                   cities_data_csv, influence_matrix_csv, sessions>>

\* the session and file after delete_indicator(city_name, indicator_name)
delete_indicator(ss, rd, csv, city_name, indicator_name) ==
    LET existing_data == ReadIndicators(DataOf(csv))
        updated_data == SelectSeq(existing_data, LAMBDA r :
                            ~(/\ r.City # NaNCell /\ r.City = city_name
                              /\ r.Indicator_Name # NaNName
                              /\ r.Indicator_Name = indicator_name))
    IN  IF existing_data # <<>>
        THEN [csv |-> File(WriteIndicators(updated_data)),
              ss |-> update_session_state_for_analysis(
                         save_custom_indicators_data(LoadCustom(ss, csv), rd, updated_data),
                         rd, File(updated_data))]
        ELSE [csv |-> csv, ss |-> LoadCustom(ss, csv)]

\* show_city_indicator_entry, "Delete" on a stored indicator of a
\* configured city
click_delete_indicator ==
    /\ session_state.setup_complete
    /\ \E idx \in DOMAIN DataOf(custom_indicators_csv) :
        LET row == DataOf(custom_indicators_csv)[idx]
            started == Started(session_state, research_data, cities_data_csv,
                               custom_indicators_csv)
            deleted == delete_indicator(started, research_data,
                                        custom_indicators_csv, row.City,
                                        row.Indicator_Name)
        IN  /\ row.City \in Range(research_data.city)
            /\ pc' = "delete_indicator"
            /\ out' = [message |-> ""]
            /\ custom_indicators_csv' = deleted.csv
            /\ session_state' = Rerun(deleted.ss, research_data, cities_data_csv,
                                      deleted.csv, influence_matrix_csv)
    /\ UNCHANGED <<df, cols, weights, indicators_data, research_data,
                   cities_data_csv, influence_matrix_csv, sessions>>

\* the session after clear_all_custom_indicators() has removed the file
clear_all_custom_indicators(ss) ==
    [ss EXCEPT !.custom_indicators_data = NoFile, !.confirm_clear_all = FALSE]

\* variant: the first click clears at once
click_clear_all_indicators_unconfirmed ==
    /\ session_state.setup_complete
    /\ DataOf(custom_indicators_csv) # <<>>
    /\ LET started == Started(session_state, research_data, cities_data_csv,
                              custom_indicators_csv)
       IN  /\ pc' = "clear_all"
           /\ out' = [message |-> "All indicators have been cleared"]
           /\ custom_indicators_csv' = NoFile
           /\ session_state' =
                  Rerun(clear_all_custom_indicators(started), research_data,
                        cities_data_csv, NoFile, influence_matrix_csv)
    /\ UNCHANGED <<df, cols, weights, indicators_data, research_data,
                   cities_data_csv, influence_matrix_csv, sessions>>

\* "Clear All Indicators": the first click asks for confirmation, the
\* second clears
click_clear_all_indicators ==
    /\ session_state.setup_complete
    /\ DataOf(custom_indicators_csv) # <<>>
    /\ LET started == Started(session_state, research_data, cities_data_csv,
                              custom_indicators_csv)
       IN  /\ pc' = "clear_all"
           /\ IF started.confirm_clear_all
              THEN /\ out' = [message |-> "All indicators have been cleared"]
                   /\ custom_indicators_csv' = NoFile
                   /\ session_state' =
                          Rerun(clear_all_custom_indicators(started), research_data,
                                cities_data_csv, NoFile, influence_matrix_csv)
              ELSE /\ out' = [message |-> "Click again to confirm"]
                   /\ custom_indicators_csv' = custom_indicators_csv
                   /\ session_state' =
                          AnalysisPhase([started EXCEPT !.confirm_clear_all = TRUE],
                                   research_data, cities_data_csv,
                                   custom_indicators_csv, influence_matrix_csv)
    /\ UNCHANGED <<df, cols, weights, indicators_data, research_data,
                   cities_data_csv, influence_matrix_csv, sessions>>

\* show_custom_indicator_setup, a file put into the uploader
upload_file(files) ==
    /\ session_state.setup_complete
    /\ \E uploaded \in files :
        LET started == Started(session_state, research_data, cities_data_csv,
                               custom_indicators_csv)
        IN  /\ pc' = "upload"
            /\ IF ~uploaded.readable
               THEN /\ out' = [message |-> "Error reading CSV", uploaded |-> uploaded,
                            before |-> session_state,
                            file_before |-> custom_indicators_csv]
                    /\ custom_indicators_csv' = custom_indicators_csv
                    /\ session_state' =
                           AnalysisPhase(started, research_data, cities_data_csv,
                                    custom_indicators_csv, influence_matrix_csv)
               ELSE IF ~(RequiredCols \subseteq uploaded.columns)
               THEN /\ out' = [message |-> "CSV must contain columns", uploaded |-> uploaded,
                            before |-> session_state,
                            file_before |-> custom_indicators_csv]
                    /\ custom_indicators_csv' = custom_indicators_csv
                    /\ session_state' =
                           AnalysisPhase(started, research_data, cities_data_csv,
                                    custom_indicators_csv, influence_matrix_csv)
               ELSE /\ out' = [message |-> "Successfully loaded", uploaded |-> uploaded,
                            before |-> session_state,
                            file_before |-> custom_indicators_csv]
                    /\ custom_indicators_csv' = File(uploaded.rows)
                    /\ session_state' =
                           Rerun(save_custom_indicators_data(started, research_data,
                                                             uploaded.rows),
                                 research_data, cities_data_csv,
                                 File(uploaded.rows), influence_matrix_csv)
    /\ UNCHANGED <<df, cols, weights, indicators_data, research_data,
                   cities_data_csv, influence_matrix_csv, sessions>>

\* the upload with one of the files Uploads
upload_indicator_csv == upload_file(Uploads)

(***************************************************************************)
(* The influence matrix section of the dashboard.  Each action is a run of *)
(* main in which the section is rendered; out records the matrix that      *)
(* create_influence_matrix_input returned to the section, the common       *)
(* indicators of the run and the exception that ended the run, if any.     *)
(* The analysis below the buttons is show_influence_analysis.              *)
(***************************************************************************)
\* selectboxes the user changes, and the ratings chosen
TouchedKeys == {<<1, 2>>, <<2, 1>>, <<1, 3>>}
SelectedRatings == {-2, 1}

\* np.all(matrix_data == 0)
AllZero(matrix) ==
    \A i \in 1..Len(matrix) : \A j \in 1..Len(matrix[i]) : matrix[i][j] = 0

\* what a run of the section leaves in out
SectionOut(sec, common, error) ==
    [matrix |-> sec.matrix, indicators |-> common, error |-> error]

\* a run that renders the section, without event
show_influence_matrix_section ==
    LET started == Started(session_state, research_data, cities_data_csv,
                           custom_indicators_csv)
        common == get_common_indicators(research_data, custom_indicators_csv)
        sec == InfluenceSection(started, research_data, custom_indicators_csv,
                                influence_matrix_csv)
    IN  /\ pc' = "matrix_input"
        /\ out' = SectionOut(sec, common, sec.error)
        /\ session_state' = AnalysisPhase(started, research_data, cities_data_csv,
                                          custom_indicators_csv, influence_matrix_csv)
        /\ UNCHANGED <<df, cols, weights, indicators_data, research_data,
                       custom_indicators_csv, cities_data_csv,
                       influence_matrix_csv, sessions>>

\* the user picks a rating in a selectbox of the last run
select_influence ==
    /\ \E p \in TouchedKeys \cap DOMAIN session_state.widgets :
       \E v \in SelectedRatings :
        LET started == Started([session_state EXCEPT !.widgets[p] = v],
                               research_data, cities_data_csv,
                               custom_indicators_csv)
            common == get_common_indicators(research_data, custom_indicators_csv)
            sec == InfluenceSection(started, research_data, custom_indicators_csv,
                                    influence_matrix_csv)
        IN  /\ pc' = "matrix_input"
            /\ out' = SectionOut(sec, common, sec.error)
            /\ session_state' =
                   AnalysisPhase(started, research_data, cities_data_csv,
                                 custom_indicators_csv, influence_matrix_csv)
    /\ UNCHANGED <<df, cols, weights, indicators_data, research_data,
                   custom_indicators_csv, cities_data_csv,
                   influence_matrix_csv, sessions>>

\* save_influence_matrix(matrix, indicators): pd.DataFrame raises
\* ValueError, before anything is written, when the matrix has not one
\* row and column for each indicator
save_influence_matrix(matrix, indicators, mcsv) ==
    IF Len(matrix) # Len(indicators)
    THEN [error |-> "ValueError", file |-> mcsv]
    ELSE [error |-> "", file |-> File(matrix)]

\* "Save Matrix"
click_save_matrix ==
    LET started == Started(session_state, research_data, cities_data_csv,
                           custom_indicators_csv)
        common == get_common_indicators(research_data, custom_indicators_csv)
        sec == InfluenceSection(started, research_data, custom_indicators_csv,
                                influence_matrix_csv)
        rendered == AnalysisPhase(started, research_data, cities_data_csv,
                                  custom_indicators_csv, influence_matrix_csv)
        saved == save_influence_matrix(sec.matrix, common, influence_matrix_csv)
    IN  /\ sec.error = ""
        /\ pc' = "save_matrix"
        /\ out' = SectionOut(sec, common, saved.error)
        /\ influence_matrix_csv' = saved.file
        /\ session_state' =
               IF saved.error # ""
               THEN rendered
               ELSE Rerun(rendered, research_data, cities_data_csv,
                          custom_indicators_csv, saved.file)
        /\ UNCHANGED <<df, cols, weights, indicators_data, research_data,
                       custom_indicators_csv, cities_data_csv, sessions>>

\* clear_influence_matrix(): the file is removed and the analysis flag deleted
clear_influence_matrix(ss) == [ss EXCEPT !.show_influence_analysis = FALSE]

\* "Clear Matrix"
click_clear_matrix ==
    LET started == Started(session_state, research_data, cities_data_csv,
                           custom_indicators_csv)
        common == get_common_indicators(research_data, custom_indicators_csv)
        sec == InfluenceSection(started, research_data, custom_indicators_csv,
                                influence_matrix_csv)
        rendered == AnalysisPhase(started, research_data, cities_data_csv,
                                  custom_indicators_csv, influence_matrix_csv)
    IN  /\ sec.error = ""
        /\ pc' = "clear_matrix"
        /\ out' = SectionOut(sec, common, "")
        /\ influence_matrix_csv' = NoFile
        /\ session_state' = Rerun(clear_influence_matrix(rendered), research_data,
                                  cities_data_csv, custom_indicators_csv, NoFile)
        /\ UNCHANGED <<df, cols, weights, indicators_data, research_data,
                       custom_indicators_csv, cities_data_csv, sessions>>

\* "Generate Analysis", offered when the matrix is not all zero
click_generate_analysis ==
    LET started == Started(session_state, research_data, cities_data_csv,
                           custom_indicators_csv)
        common == get_common_indicators(research_data, custom_indicators_csv)
        sec == InfluenceSection(started, research_data, custom_indicators_csv,
                                influence_matrix_csv)
        rendered == AnalysisPhase(started, research_data, cities_data_csv,
                                  custom_indicators_csv, influence_matrix_csv)
    IN  /\ sec.error = ""
        /\ ~AllZero(sec.matrix)
        /\ pc' = "generate_analysis"
        /\ out' = SectionOut(sec, common, "")
        /\ session_state' =
               Rerun([rendered EXCEPT !.show_influence_analysis = TRUE],
                     research_data, cities_data_csv, custom_indicators_csv,
                     influence_matrix_csv)
        /\ UNCHANGED <<df, cols, weights, indicators_data, research_data,
                       custom_indicators_csv, cities_data_csv,
                       influence_matrix_csv, sessions>>

\* the rows of a table in which each of the cities has each of the names
CompleteRows(cities, names) ==
    [k \in 1..(Len(cities) * Len(names)) |->
        [City |-> cities[((k - 1) \div Len(names)) + 1],
         Indicator_Name |-> names[((k - 1) % Len(names)) + 1]]]

\* uploads that change the common indicators: two or three indicators
\* for each of the four cities
CompleteUploads ==
    {[readable |-> TRUE, columns |-> RequiredCols,
      rows |-> CompleteRows(<<"A", "B", "C", "D">>, names)] :
        names \in {<<NameX, NameY>>, <<NameX, NameY, NameZ>>}}

\* the upload with one of the files CompleteUploads
upload_complete_csv == upload_file(CompleteUploads)

\* the cities A..D are set up and a complete table has been uploaded
InitInfluence ==
    /\ df = <<>>
    /\ cols = {}
    /\ weights = <<>>
    /\ indicators_data = <<>>
    /\ pc = "start"
    /\ out = [message |-> ""]
    /\ research_data = [exists |-> TRUE, city |-> <<"A", "B", "C", "D">>]
    /\ cities_data_csv = File(<<>>)
    /\ influence_matrix_csv = NoFile
    /\ sessions = <<>>
    /\ \E uploaded \in CompleteUploads :
        /\ custom_indicators_csv = File(uploaded.rows)
        /\ session_state =
               Rerun(save_custom_indicators_data(
                         [NewSession EXCEPT !.setup_complete = TRUE],
                         research_data, uploaded.rows),
                     research_data, cities_data_csv, File(uploaded.rows), NoFile)

NextInfluence ==
    \/ show_influence_matrix_section
    \/ select_influence
    \/ click_save_matrix
    \/ click_clear_matrix
    \/ click_generate_analysis
    \/ upload_complete_csv

SpecInfluence == InitInfluence /\ [][NextInfluence]_vars

(***************************************************************************)
(* The three loaders, called on their own.  out records what the call      *)
(* returned and the session it was called in.                              *)
(***************************************************************************)
call_load_custom_indicators_data ==
    /\ pc' = "load_custom_indicators_data"
    /\ out' = [returned |-> DataOf(custom_indicators_csv), before |-> session_state]
    /\ session_state' = LoadCustom(session_state, custom_indicators_csv)
    /\ UNCHANGED <<df, cols, weights, indicators_data, research_data,
                   custom_indicators_csv, cities_data_csv, influence_matrix_csv,
                   sessions>>

call_load_collected_data ==
    /\ pc' = "load_collected_data"
    /\ out' = [returned |-> load_collected_data(cities_data_csv),
               before |-> session_state]
    /\ session_state' = LoadCollected(session_state, cities_data_csv)
    /\ UNCHANGED <<df, cols, weights, indicators_data, research_data,
                   custom_indicators_csv, cities_data_csv, influence_matrix_csv,
                   sessions>>

call_load_influence_matrix ==
    /\ pc' = "load_influence_matrix"
    /\ out' = [returned |-> load_influence_matrix(influence_matrix_csv),
               before |-> session_state]
    /\ UNCHANGED <<df, cols, weights, indicators_data, storeVars>>

\* the files and sessions the loaders are called with
LoaderCustomFiles ==
    {NoFile, File(<<>>), File(<<[City |-> "A", Indicator_Name |-> NameX]>>),
     File(<<[City |-> "A", Indicator_Name |-> NameX],
            [City |-> "B", Indicator_Name |-> NameX]>>)}

LoaderCityFiles == {NoFile, File(<<>>), File(<<CityRow("A")>>)}

LoaderMatrixFiles == {NoFile} \cup {File(m) : m \in ZeroDiagonalMatrices(2)}

LoaderSessions ==
    {NewSession,
     [NewSession EXCEPT
         !.custom_indicators_data = File(<<[City |-> "B", Indicator_Name |-> NameX]>>),
         !.city_data = File(<<CityRow("B")>>)]}

InitLoaders ==
    /\ df = <<>>
    /\ cols = {}
    /\ weights = <<>>
    /\ indicators_data = <<>>
    /\ pc = "start"
    /\ out = [message |-> ""]
    /\ research_data = NoResearchData
    /\ sessions = <<>>
    /\ custom_indicators_csv \in LoaderCustomFiles
    /\ cities_data_csv \in LoaderCityFiles
    /\ influence_matrix_csv \in LoaderMatrixFiles
    /\ session_state \in LoaderSessions

NextLoaders ==
    \/ call_load_custom_indicators_data
    \/ call_load_collected_data
    \/ call_load_influence_matrix

SpecLoaders == InitLoaders /\ [][NextLoaders]_vars

InitStore ==
    /\ NoStore
    /\ df = <<>>
    /\ cols = {}
    /\ weights = <<>>
    /\ indicators_data = <<>>
    /\ pc = "start"
    /\ out = [message |-> ""]

NextStore ==
    \/ main
    \/ start_data_collection
    \/ submit_city_data
    \/ submit_add_indicator
    \/ click_delete_indicator
    \/ click_clear_all_indicators
    \/ upload_indicator_csv

SpecStore == InitStore /\ [][NextStore]_vars

(***************************************************************************)
(* check_analysis_readiness and get_common_indicators called on their     *)
(* own, and a run of main, for any research setup and any stored table.    *)
(***************************************************************************)
call_check_analysis_readiness ==
    /\ pc' = "check_analysis_readiness"
    /\ out' = [returned |-> check_analysis_readiness(research_data,
                                                     custom_indicators_csv)]
    /\ session_state' = IF research_data.exists /\ Len(TargetCities(research_data)) = 4
                        THEN LoadCustom(session_state, custom_indicators_csv)
                        ELSE session_state
    /\ UNCHANGED <<df, cols, weights, indicators_data, research_data,
                   custom_indicators_csv, cities_data_csv, influence_matrix_csv,
                   sessions>>

call_get_common_indicators ==
    /\ pc' = "get_common_indicators"
    /\ out' = [returned |-> get_common_indicators(research_data,
                                                  custom_indicators_csv)]
    /\ session_state' = IF research_data.exists /\ Len(TargetCities(research_data)) = 4
                        THEN LoadCustom(session_state, custom_indicators_csv)
                        ELSE session_state
    /\ UNCHANGED <<df, cols, weights, indicators_data, research_data,
                   custom_indicators_csv, cities_data_csv, influence_matrix_csv,
                   sessions>>

\* research_data of a session: none, {}, three names, four names
ResearchInputs ==
    {NoResearchData,
     [exists |-> TRUE, city |-> <<"", "", "", "">>],
     [exists |-> TRUE, city |-> <<"A", "B", "C", "">>],
     [exists |-> TRUE, city |-> <<"A", "B", "C", "D">>],
     [exists |-> TRUE, city |-> <<"A", "A", "B", "B">>]}

\* the rows a stored table is made of, in file order
StoredPairs ==
    <<[City |-> "A", Indicator_Name |-> NameX], [City |-> "B", Indicator_Name |-> NameX],
      [City |-> "C", Indicator_Name |-> NameX], [City |-> "D", Indicator_Name |-> NameX],
      [City |-> "A", Indicator_Name |-> NameY], [City |-> "B", Indicator_Name |-> NameY],
      [City |-> "C", Indicator_Name |-> NameY], [City |-> "D", Indicator_Name |-> NameY]>>

StoredFiles ==
    {NoFile} \cup
    {File(SelectSeq(StoredPairs, LAMBDA r : r \in chosen)) :
        chosen \in SUBSET Range(StoredPairs)}

InitReadiness ==
    /\ df = <<>>
    /\ cols = {}
    /\ weights = <<>>
    /\ indicators_data = <<>>
    /\ pc = "start"
    /\ out = [message |-> ""]
    /\ research_data \in ResearchInputs
    /\ custom_indicators_csv \in StoredFiles
    /\ cities_data_csv = NoFile
    /\ influence_matrix_csv = NoFile
    /\ session_state = NewSession
    /\ sessions = <<>>

NextReadiness ==
    \/ call_check_analysis_readiness
    \/ call_get_common_indicators
    \/ main

SpecReadiness == InitReadiness /\ [][NextReadiness]_vars

(***************************************************************************)
(* Two script runs on the same data directory.  Each run has its own       *)
(* session state; the files are shared.  A load-modify-save operation      *)
(* reads the whole file into a local DataFrame (read_csv), and later       *)
(* writes the DataFrame it computed from that copy (to_csv); nothing       *)
(* keeps the other run from reading or writing in between.  out keeps      *)
(* the files as they were before the two runs.                             *)
(***************************************************************************)
Runs == {1, 2}

\* the operation of a run
RaceOps ==
    {[kind |-> "add_custom_indicator", city |-> "A", name |-> NameX],
     [kind |-> "add_custom_indicator", city |-> "B", name |-> NameX],
     [kind |-> "delete_indicator", city |-> "A", name |-> NameX],
     [kind |-> "save_city_data", city |-> "A", name |-> <<>>],
     [kind |-> "save_city_data", city |-> "B", name |-> <<>>]}

OnCities(op) == op.kind = "save_city_data"

\* save_city_data(city_data) on the DataFrame read from csv
save_city_data(ss, csv, city_data) ==
    LET df_read == ReadCities(DataOf(csv))
        kept == SelectSeq(df_read, LAMBDA r : r.City # city_data.City)
        saved == Append(kept, city_data)
    IN  [csv |-> File(WriteCities(saved)),
         ss |-> [ss EXCEPT !.city_data = File(saved)]]

\* variant: the file is read again, under a lock, when it is written
ExistingData_locked(s, csv) == csv

\* the DataFrame a run works on: the copy it read
ExistingData(s, csv) == sessions[s].existing

\* the operation op carried out on the DataFrame existing; wrote tells
\* whether it reaches to_csv (delete_indicator does not on an empty table)
Carry(op, ss, rd, existing) ==
    IF op.kind = "add_custom_indicator"
    THEN LET added == add_custom_indicator(ss, rd, existing,
                          [City |-> op.city, Indicator_Name |-> op.name])
         IN  [csv |-> added.csv, ss |-> added.ss, wrote |-> TRUE]
    ELSE IF op.kind = "delete_indicator"
    THEN LET deleted == delete_indicator(ss, rd, existing, op.city, op.name)
         IN  [csv |-> deleted.csv, ss |-> deleted.ss,
              wrote |-> DataOf(existing) # <<>>]
    ELSE LET saved == save_city_data(ss, existing, CityRow(op.city))
         IN  [csv |-> saved.csv, ss |-> saved.ss, wrote |-> TRUE]

\* a run starts an operation and reads the file
read_csv ==
    /\ \E s \in Runs, op \in RaceOps :
        LET csv == IF OnCities(op) THEN cities_data_csv ELSE custom_indicators_csv
        IN  /\ sessions[s].pc = "idle"
            /\ sessions' = [sessions EXCEPT ![s] =
                   [@ EXCEPT !.pc = "loaded",
                             !.op = op,
                             !.existing = csv,
                             !.ss = IF OnCities(op) THEN @ ELSE LoadCustom(@, csv),
                             !.load_seen = {t \in Runs : sessions[t].pc = "done"}]]
    /\ pc' = "read_csv"
    /\ UNCHANGED <<df, cols, out, weights, indicators_data, research_data,
                   custom_indicators_csv, cities_data_csv, influence_matrix_csv,
                   session_state>>

\* a run finishes its operation and writes the file
to_csv ==
    /\ \E s \in Runs :
        LET op == sessions[s].op
            now == IF OnCities(op) THEN cities_data_csv ELSE custom_indicators_csv
            done == Carry(op, sessions[s].ss, research_data, ExistingData(s, now))
            written == IF done.wrote THEN done.csv ELSE now
        IN  /\ sessions[s].pc = "loaded"
            /\ sessions' = [sessions EXCEPT ![s] =
                   [@ EXCEPT !.pc = "done",
                             !.ss = done.ss,
                             !.wrote = done.wrote,
                             !.save_seen = {t \in Runs : sessions[t].pc = "done"}]]
            /\ cities_data_csv' = IF OnCities(op) THEN written ELSE cities_data_csv
            /\ custom_indicators_csv' =
                   IF OnCities(op) THEN custom_indicators_csv ELSE written
    /\ pc' = "to_csv"
    /\ UNCHANGED <<df, cols, out, weights, indicators_data, research_data,
                   influence_matrix_csv, session_state>>

InitRace ==
    /\ df = <<>>
    /\ cols = {}
    /\ weights = <<>>
    /\ indicators_data = <<>>
    /\ pc = "start"
    /\ research_data = [exists |-> TRUE, city |-> <<"A", "B", "C", "D">>]
    /\ custom_indicators_csv \in
           {NoFile, File(<<[City |-> "A", Indicator_Name |-> NameX]>>)}
    /\ cities_data_csv \in {NoFile, File(<<CityRow("A")>>)}
    /\ influence_matrix_csv = NoFile
    /\ session_state = NewSession
    /\ out = [custom_indicators_csv |-> custom_indicators_csv,
              cities_data_csv |-> cities_data_csv]
    /\ sessions = [s \in Runs |->
           [pc |-> "idle", op |-> [kind |-> "", city |-> "", name |-> <<>>],
            existing |-> NoFile,
            ss |-> [NewSession EXCEPT !.setup_complete = TRUE],
            wrote |-> FALSE, load_seen |-> {}, save_seen |-> {}]]

NextRace ==
    \/ read_csv
    \/ to_csv

SpecRace == InitRace /\ [][NextRace]_vars

(***************************************************************************)
(* The setup form and "Clear All Data and Restart".  out records what the  *)
(* form was given, what the run answered and the setup data before it.     *)
(***************************************************************************)
\* city1..city4 as typed into the form
SetupForms ==
    {<<"A", "B", "C", "D">>, <<"A", "B", "C", " ">>, <<"A", "B", "C", "">>,
     <<"", "B", "C", "D">>, <<"", "", "", "">>}

\* str.strip() of a city name of SetupForms
StripCity(city) == IF city = " " THEN "" ELSE city

\* a text of n characters other than blanks
Chars(n) == [i \in 1..n |-> "q"]

\* research questions typed into the form
QuestionInputs ==
    {<<>>, Chars(9), Chars(10), Chars(11), <<" ">> \o Chars(10) \o <<" ">>,
     <<" ">> \o Chars(11)}

\* all([city1.strip(), ..., city4.strip()])
cities_filled(cities) == \A i \in DOMAIN cities : StripCity(cities[i]) # ""

\* len(research_question.strip()) > 10
research_filled(research_question) == Len(Strip(research_question)) > 10

\* a run of main with the form filled in, and the button clicked if it is
\* offered and clicked is set
show_initial_setup ==
    \E cities \in SetupForms, research_question \in QuestionInputs,
       clicked \in BOOLEAN :
        LET offered == cities_filled(cities) /\ research_filled(research_question)
            missing == (IF research_filled(research_question) THEN {}
                        ELSE {"Research question (minimum 10 characters)"})
                       \cup (IF cities_filled(cities) THEN {}
                             ELSE {"All 4 city names"})
            form == [cities |-> cities, research_question |-> research_question,
                     offered |-> offered, clicked |-> clicked,
                     missing |-> missing, rd_before |-> research_data,
                     setup_before |-> session_state.setup_complete]
        IN  /\ clicked => offered
            /\ pc' = "show_initial_setup"
            /\ IF clicked
               THEN /\ out' = [form EXCEPT !.missing = {}]
                    /\ research_data' = [exists |-> TRUE, city |-> cities]
                    /\ cities_data_csv' = File(<<>>)
                    /\ session_state' =
                           Rerun([Prologue(session_state, research_data,
                                           cities_data_csv, custom_indicators_csv)
                                     EXCEPT !.setup_complete = TRUE],
                                 research_data', cities_data_csv',
                                 custom_indicators_csv, influence_matrix_csv)
               ELSE /\ out' = form
                    /\ research_data' = InitialSetup(research_data)
                    /\ cities_data_csv' = cities_data_csv
                    /\ session_state' =
                           Rerun(session_state, research_data', cities_data_csv,
                                 custom_indicators_csv, influence_matrix_csv)
            /\ UNCHANGED <<df, cols, weights, indicators_data,
                           custom_indicators_csv, influence_matrix_csv, sessions>>

\* "Clear All Data and Restart": offered in step 2 when one of the two
\* tables is not empty; every key of the session state is deleted (the
\* research data is one of them), the files stay, and the run starts again
click_clear_all_data ==
    LET started == Started(session_state, research_data, cities_data_csv,
                           custom_indicators_csv)
    IN  /\ started.setup_complete
        /\ \/ convert_custom_indicators_for_analysis(research_data,
                                                     custom_indicators_csv) # <<>>
           \/ load_collected_data(cities_data_csv) # <<>>
        /\ pc' = "clear_all_data"
        /\ out' = [message |-> "", before |-> session_state]
        /\ research_data' = InitialSetup(NoResearchData)
        /\ session_state' = Rerun(NewSession, research_data', cities_data_csv,
                                  custom_indicators_csv, influence_matrix_csv)
        /\ UNCHANGED <<df, cols, weights, indicators_data, custom_indicators_csv,
                       cities_data_csv, influence_matrix_csv, sessions>>

InitSetup == InitStore

NextSetup ==
    \/ show_initial_setup
    \/ click_clear_all_data
    \/ submit_city_data
    \/ upload_indicator_csv

SpecSetup == InitSetup /\ [][NextSetup]_vars

(***************************************************************************)
(* save_city_data called again and again on cities_data.csv, starting from *)
(* no file or from the empty table of create_initial_csv.  out records the *)
(* record handed to the call and the table as it was read before it.       *)
(***************************************************************************)
\* city names of the saved records; "NA" is a name read_csv takes for missing
SavedCities == {"A", "B", "NA"}

\* Population of the saved records
Populations == {1, 2}

\* the record built by the data entry form
CityData(city, population) ==
    [City |-> city, Data_Source |-> "Default + User Input", columns |-> {},
     Population |-> population]

call_save_city_data ==
    /\ Len(DataOf(cities_data_csv)) < MaxRows
    /\ \E city \in SavedCities, population \in Populations :
        LET saved == save_city_data(session_state, cities_data_csv,
                                    CityData(city, population))
        IN  /\ pc' = "call_save_city_data"
            /\ out' = [city_data |-> CityData(city, population),
                       before |-> load_collected_data(cities_data_csv)]
            /\ cities_data_csv' = saved.csv
            /\ session_state' = saved.ss
    /\ UNCHANGED <<df, cols, weights, indicators_data, research_data,
                   custom_indicators_csv, influence_matrix_csv, sessions>>

InitCities ==
    /\ df = <<>>
    /\ cols = {}
    /\ weights = <<>>
    /\ indicators_data = <<>>
    /\ pc = "start"
    /\ out = [message |-> ""]
    /\ research_data = NoResearchData
    /\ custom_indicators_csv = NoFile
    /\ cities_data_csv \in {NoFile, File(<<>>)}
    /\ influence_matrix_csv = NoFile
    /\ session_state = NewSession
    /\ sessions = <<>>

NextCities == call_save_city_data

SpecCities == InitCities /\ [][NextCities]_vars

(***************************************************************************)
(* The two spider normalisations on tables whose unemployment rate varies  *)
(***************************************************************************)
\* city records with the unemployment rate and the GDP varied
SpiderRows ==
    {[DefaultRow EXCEPT !.Unemployment_Rate = R(u), !.GDP_per_Capita = R(g)] :
        u \in {0, 5, 100}, g \in GDPValues}

SpiderTables == UNION {[1..n -> SpiderRows] : n \in 1..MaxCities}

InitSpider ==
    /\ df \in SpiderTables
    /\ NoStore
    /\ cols \in {AllCols, BaseCols}
    /\ pc = "input"
    /\ out = <<>>
    /\ weights = <<>>
    /\ indicators_data = <<>>

NextSpider ==
    \/ show_spider_plot_section
    \/ show_default_template_spider_plots

SpecSpider == InitSpider /\ [][NextSpider]_vars

(***************************************************************************)
(* The overall ranking on datasets as the upload can store them: a Value   *)
(* cell left empty in the uploaded CSV is read back as NaN.                *)
(***************************************************************************)
\* the Value cells of an uploaded table
UploadedValues(indicator) == IF indicator = "x" THEN {NaN, R(1), R(3)} ELSE {R(2)}

UploadedRows ==
    UNION {{[City |-> c, Indicator_Name |-> n, Value |-> v,
             Category |-> CategoryOf(c, n)] :
                c \in CityNames, v \in UploadedValues(n)} :
           n \in IndicatorNames}

\* uploaded datasets with at most one entry per city and indicator name
UploadedDatasets ==
    {d \in UNION {[1..n -> UploadedRows] : n \in 1..MaxRows} :
        \A i, j \in DOMAIN d :
            (d[i].City = d[j].City /\ d[i].Indicator_Name = d[j].Indicator_Name)
                => i = j}

InitScores ==
    /\ indicators_data \in UploadedDatasets
    /\ NoStore
    /\ df = <<>>
    /\ cols = {}
    /\ pc = "input"
    /\ out = <<>>
    /\ weights = <<>>

NextScores == show_custom_overall_ranking

SpecScores == InitScores /\ [][NextScores]_vars

(***************************************************************************)
(* delete_indicator called on a stored table.  out records the arguments   *)
(* and the rows stored before the call.                                    *)
(***************************************************************************)
\* an indicator name that read_csv takes for a missing cell
NameNA == <<"N", "A">>

\* stored tables of up to MaxRows entries, repeated entries included
DeleteStores ==
    {NoFile} \cup
    {File(rows) : rows \in UNION {[1..n -> [City : {"A", "B"},
                                           Indicator_Name : {NameX, NameY, NameNA}]] :
                                  n \in 0..MaxRows}}

call_delete_indicator ==
    /\ pc = "start"
    /\ \E city_name \in {"A", "B"}, indicator_name \in {NameX, NameY, NameNA} :
        LET deleted == delete_indicator(session_state, research_data,
                                        custom_indicators_csv, city_name,
                                        indicator_name)
        IN  /\ pc' = "call_delete_indicator"
            /\ out' = [city_name |-> city_name, indicator_name |-> indicator_name,
                       before |-> DataOf(custom_indicators_csv)]
            /\ custom_indicators_csv' = deleted.csv
            /\ session_state' = deleted.ss
    /\ UNCHANGED <<df, cols, weights, indicators_data, research_data,
                   cities_data_csv, influence_matrix_csv, sessions>>

InitDelete ==
    /\ df = <<>>
    /\ cols = {}
    /\ weights = <<>>
    /\ indicators_data = <<>>
    /\ pc = "start"
    /\ out = [message |-> ""]
    /\ research_data = [exists |-> TRUE, city |-> <<"A", "B", "C", "D">>]
    /\ custom_indicators_csv \in DeleteStores
    /\ cities_data_csv = NoFile
    /\ influence_matrix_csv = NoFile
    /\ session_state = [NewSession EXCEPT !.setup_complete = TRUE]
    /\ sessions = <<>>

NextDelete == call_delete_indicator

SpecDelete == InitDelete /\ [][NextDelete]_vars

(***************************************************************************)
(* Claims about missing columns (template data)                            *)
(***************************************************************************)
Dimensions ==
    << <<"Environmental_Score", {"Air_Quality", "Green_Space", "Renewable_Energy"}>>,
       <<"Social_Score", {"Education_Index", "Healthcare_Access", "Safety_Index"}>>,
       <<"Economic_Score", {"GDP_per_Capita", "Innovation_Index", "Unemployment_Rate"}>> >>

\* C11: after calculate_sustainability_scores and
\* calculate_default_sustainability_scores a dimension with a column absent
\* from the table has score 0 for every city, a result is produced (no
\* error), and Overall_Score is the sum of the three dimension scores
\* divided by 3.
C11_MissingColumnsScoreZero ==
    pc \in {"scored", "default_scored"} =>
        /\ Len(out) = Len(df)
        /\ \A i \in DOMAIN out :
            /\ \A d \in DOMAIN Dimensions :
                   ~(Dimensions[d][2] \subseteq cols) => out[i][Dimensions[d][1]] = R(0)
            /\ out[i].Overall_Score =
                   RDiv(RAdd(RAdd(out[i].Environmental_Score, out[i].Social_Score),
                             out[i].Economic_Score), R(3))

C11_Witness ==
    /\ pc = "scored"
    /\ "GDP_per_Capita" \notin cols
    /\ Len(out) = 2
    /\ out[1].Economic_Score = R(0)
    /\ RGt(out[1].Overall_Score, R(0))

(***************************************************************************)
(* Claims about the influence analysis                                     *)
(***************************************************************************)
\* sum of |v[j]| counted as the number of units: |v[j]| <= 2
UnitsOf(v) == Cardinality({p \in (DOMAIN v) \X (1..2) : p[2] <= Abs(v[p[1]])})

\* C12: after show_influence_analysis every indicator has exactly one row
\* in results_df; its Activity is the sum of the absolute values of its
\* matrix row, its Passivity the sum of the absolute values of its matrix
\* column, and its Total_Influence is Activity + Passivity.
C12_ActivityPassivitySums ==
    pc = "analysis" =>
        LET m == out.matrix
            rs == out.results_df
        IN  /\ Len(rs) = Len(m)
            /\ \A i \in DOMAIN m : \E k \in DOMAIN rs :
                   /\ rs[k].Indicator = out.indicators[i]
                   /\ rs[k].Activity = R(UnitsOf(m[i]))
                   /\ rs[k].Passivity = R(UnitsOf([j \in DOMAIN m |-> m[j][i]]))
                   /\ rs[k].Total_Influence =
                          R(UnitsOf(m[i]) + UnitsOf([j \in DOMAIN m |-> m[j][i]]))

C12_Witness ==
    /\ pc = "analysis"
    /\ Len(out.matrix) = 3
    /\ out.matrix[1] = <<0, -2, 1>>
    /\ out.matrix[2][1] = -1
    /\ out.matrix[3][1] = 0
    /\ \E k \in DOMAIN out.results_df :
        /\ out.results_df[k].Indicator = NameX
        /\ out.results_df[k].Activity = R(3)
        /\ out.results_df[k].Passivity = R(1)
        /\ out.results_df[k].Total_Influence = R(4)

\* the two middle order statistics of a series
LowerMiddle(series) ==
    CHOOSE v \in {series[k] : k \in DOMAIN series} :
        /\ 2 * Cardinality({k \in DOMAIN series : RLe(series[k], v)}) >= Len(series)
        /\ 2 * Cardinality({k \in DOMAIN series : RLt(series[k], v)}) < Len(series)

UpperMiddle(series) ==
    CHOOSE v \in {series[k] : k \in DOMAIN series} :
        /\ 2 * Cardinality({k \in DOMAIN series : RLe(v, series[k])}) >= Len(series)
        /\ 2 * Cardinality({k \in DOMAIN series : RLt(v, series[k])}) < Len(series)

MedianOf(series) == RDiv(RAdd(LowerMiddle(series), UpperMiddle(series)), R(2))

\* C13: show_quadrant_analysis lists an indicator as high-activity exactly
\* when its Activity is strictly greater than the median Activity, and as
\* high-passivity exactly when its Passivity is strictly greater than the
\* median Passivity; an indicator at a median is on the low side.
\* Ambivalent = high/high, Active = high activity/low passivity,
\* Passive = low activity/high passivity, Indifferent = low/low.
C13_QuadrantsByStrictMedian ==
    pc = "analysis" =>
        LET rs == out.results_df
            ma == MedianOf(Column(rs, "Activity"))
            mp == MedianOf(Column(rs, "Passivity"))
        IN  \A k \in DOMAIN rs :
            LET highA == RGt(rs[k].Activity, ma)
                highP == RGt(rs[k].Passivity, mp)
                name == rs[k].Indicator
            IN  /\ name \in out.quadrants.Ambivalent <=> (highA /\ highP)
                /\ name \in out.quadrants.Active <=> (highA /\ ~highP)
                /\ name \in out.quadrants.Passive <=> (~highA /\ highP)
                /\ name \in out.quadrants.Indifferent <=> (~highA /\ ~highP)

C13_Witness ==
    /\ pc = "analysis"
    /\ Len(out.matrix) = 3
    /\ out.quadrants.Ambivalent # {}
    /\ \E k \in DOMAIN out.results_df :
        /\ out.results_df[k].Activity = MedianOf(Column(out.results_df, "Activity"))
        /\ out.results_df[k].Passivity = MedianOf(Column(out.results_df, "Passivity"))
        /\ RGt(out.results_df[k].Activity, R(0))
        /\ out.results_df[k].Indicator \in out.quadrants.Indifferent

(***************************************************************************)
(* Claims about the custom indicator store                                 *)
(***************************************************************************)
\* C15: no city has two stored entries with the same Indicator_Name, and
\* after an "Add Indicator" submission whose stripped name was already
\* stored for the city the submission is rejected.
C15_NoDuplicateNames ==
    LET data == DataOf(custom_indicators_csv)
    IN  \A i, j \in DOMAIN data :
            (data[i].City = data[j].City
                /\ data[i].Indicator_Name = data[j].Indicator_Name) => i = j

\* the session entries an upload is said to leave alone
UploadSensitive(ss) ==
    <<ss.custom_indicators_data, ss.city_data, ss.data_collection_complete,
      ss.data_entered, ss.use_custom_indicators>>

\* C16: after an upload that cannot be read or lacks one of the columns
\* City, Indicator_Name, Description, Value, Unit, Source an error message
\* is shown, and custom_indicators.csv, custom_indicators_data, city_data
\* and the readiness flags are what they were before.
C16_BadUploadChangesNothing ==
    (/\ pc = "upload"
     /\ \/ ~out.uploaded.readable
        \/ ~({"City", "Indicator_Name", "Description", "Value", "Unit", "Source"}
                \subseteq out.uploaded.columns))
    => /\ out.message \in {"Error reading CSV", "CSV must contain columns"}
       /\ custom_indicators_csv = out.file_before
       /\ UploadSensitive(session_state) = UploadSensitive(out.before)

C16_Witness ==
    /\ pc = "upload"
    /\ out.uploaded.readable
    /\ "Source" \notin out.uploaded.columns
    /\ out.message = "CSV must contain columns"
    /\ custom_indicators_csv.exists
    /\ Len(custom_indicators_csv.rows) = 2
    /\ session_state.use_custom_indicators
    /\ session_state.city_data.exists

\* C17: called when its file does not exist, load_custom_indicators_data
\* and load_collected_data return an empty table and load_influence_matrix
\* returns no matrix, and the session state is what it was before the call.
C17_MissingFileLoadsEmpty ==
    /\ (pc = "load_custom_indicators_data" /\ ~custom_indicators_csv.exists)
           => (out.returned = <<>> /\ session_state = out.before)
    /\ (pc = "load_collected_data" /\ ~cities_data_csv.exists)
           => (out.returned = <<>> /\ session_state = out.before)
    /\ (pc = "load_influence_matrix" /\ ~influence_matrix_csv.exists)
           => (out.returned = NoFile /\ session_state = out.before)

C17_Witness ==
    /\ pc = "load_collected_data"
    /\ ~cities_data_csv.exists
    /\ ~custom_indicators_csv.exists
    /\ ~influence_matrix_csv.exists
    /\ out.returned = <<>>
    /\ session_state.city_data = File(<<CityRow("B")>>)

(***************************************************************************)
(* Claims about readiness and common indicators                            *)
(***************************************************************************)
\* research_data holds four non-empty city names
FourCities == research_data.exists /\ \A i \in 1..4 : research_data.city[i] # ""

\* the stored indicators have an entry for the city with that name
HasEntry(city, name) ==
    /\ custom_indicators_csv.exists
    /\ \E k \in DOMAIN custom_indicators_csv.rows :
           /\ custom_indicators_csv.rows[k].City = city
           /\ custom_indicators_csv.rows[k].Indicator_Name = name

Ready ==
    /\ FourCities
    /\ \A i \in 1..4 : \E name \in {NameX, NameY} : HasEntry(research_data.city[i], name)

CommonNames ==
    IF FourCities
    THEN {name \in {NameX, NameY} : \A i \in 1..4 : HasEntry(research_data.city[i], name)}
    ELSE {}

WellFormedMatrix(matrix, n) ==
    /\ Len(matrix) = n
    /\ \A i \in 1..Len(matrix) :
        /\ Len(matrix[i]) = n
        /\ \A j \in 1..Len(matrix[i]) :
            IF i = j THEN matrix[i][j] = 0 ELSE matrix[i][j] \in Ratings

\* C14: every matrix that create_influence_matrix_input returns to the
\* section is square with one row and one column for each current common
\* indicator, has a zero diagonal and entries of -2..2 elsewhere, also
\* when the common indicators have changed since the matrix was saved.
C14_ReturnedMatrixWellFormed ==
    (pc \in {"matrix_input", "save_matrix", "clear_matrix", "generate_analysis"}
        /\ out.error \in {"", "ValueError"})
    => WellFormedMatrix(out.matrix, Len(out.indicators))

(***************************************************************************)
(* Claims about two runs writing the same file                             *)
(***************************************************************************)
\* both runs are done, on the same file; t read the file before s had
\* written it and wrote it after s
Overlapped(s, t) ==
    /\ s # t
    /\ sessions[s].pc = "done" /\ sessions[t].pc = "done"
    /\ OnCities(sessions[s].op) = OnCities(sessions[t].op)
    /\ sessions[t].wrote
    /\ s \notin sessions[t].load_seen
    /\ s \in sessions[t].save_seen

\* C18: two runs of a load-modify-save operation on the same CSV can
\* interleave so that an update is lost: when a run reads the file before
\* the other has written it and writes it after the other, the file is
\* what that run alone would have left of the file they started from, so
\* nothing of the other run's change is in it.
C18_LastWriterDiscardsOtherUpdate ==
    \A s \in Runs : \A t \in Runs :
        Overlapped(s, t) =>
            LET op == sessions[t].op
                start == IF OnCities(op) THEN out.cities_data_csv
                         ELSE out.custom_indicators_csv
                final == IF OnCities(op) THEN cities_data_csv
                         ELSE custom_indicators_csv
            IN  final = Carry(op, sessions[t].ss, research_data, start).csv

\* both runs added an indicator, and the file lacks the row of one
C18_Witness ==
    \E s \in Runs : \E t \in Runs :
        /\ Overlapped(s, t)
        /\ sessions[s].op.kind = "add_custom_indicator"
        /\ sessions[t].op.kind = "add_custom_indicator"
        /\ sessions[s].wrote
        /\ [City |-> sessions[s].op.city, Indicator_Name |-> sessions[s].op.name]
               \notin Range(DataOf(custom_indicators_csv))

(***************************************************************************)
(* Claims about the setup form and the restart                             *)
(***************************************************************************)
\* C21: the form offers "Start Data Collection" exactly when the four city
\* names are non-blank after stripping and the stripped research question
\* has at least 10 characters; otherwise the warning lists what is missing
\* and setup_complete and research_data stay as they were (a research_data
\* that was absent becomes the empty dictionary, which is no setup data).
C21_SetupAcceptedExactly ==
    pc = "show_initial_setup" =>
        /\ out.offered <=>
               (/\ \A i \in 1..4 : StripCity(out.cities[i]) # ""
                /\ Len(Strip(out.research_question)) >= 10)
        /\ ~out.offered =>
               /\ out.missing # {}
               /\ session_state.setup_complete = out.setup_before
               /\ research_data = InitialSetup(out.rd_before)

\* C22: after "Clear All Data and Restart" the run that follows has no
\* entered data: no city_data, data_entered and data_collection_complete
\* false, nothing loaded from the two files.
C22_RestartLeavesNoData ==
    pc = "clear_all_data" =>
        /\ ~session_state.data_entered
        /\ ~session_state.data_collection_complete
        /\ DataOf(session_state.city_data) = <<>>
        /\ DataOf(session_state.custom_indicators_data) = <<>>

(***************************************************************************)
(* Claims about "Clear All Indicators"                                     *)
(***************************************************************************)
\* C23: clear_all_custom_indicators runs only on a click of "Clear All
\* Indicators" that finds confirm_clear_all set, and only that button sets
\* the flag: a click with the flag unset sets it and leaves the file and
\* the stored indicators of the session alone; after a click with the flag
\* set the flag is false, the file is gone and loading it gives nothing;
\* no other step removes the file or raises the flag.
C23_ClearNeedsConfirmation ==
    [][/\ pc' = "clear_all" =>
            IF session_state.confirm_clear_all
            THEN /\ ~session_state'.confirm_clear_all
                 /\ ~custom_indicators_csv'.exists
                 /\ DataOf(custom_indicators_csv') = <<>>
                 /\ LoadCustom(session_state', custom_indicators_csv') = session_state'
            ELSE /\ session_state'.confirm_clear_all
                 /\ custom_indicators_csv' = custom_indicators_csv
                 /\ session_state'.custom_indicators_data = custom_indicators_csv
       /\ (custom_indicators_csv.exists /\ ~custom_indicators_csv'.exists) =>
              (pc' = "clear_all" /\ session_state.confirm_clear_all)
       /\ (~session_state.confirm_clear_all /\ session_state'.confirm_clear_all) =>
              pc' = "clear_all"
      ]_vars

\* the clearing click has happened
C23_Witness ==
    /\ pc = "clear_all"
    /\ out.message = "All indicators have been cleared"
    /\ ~custom_indicators_csv.exists
    /\ ~session_state.confirm_clear_all
    /\ ~session_state.custom_indicators_data.exists

(***************************************************************************)
(* Claims about save_city_data                                             *)
(***************************************************************************)
\* C24: after every save_city_data call the file, as the program reads it,
\* has at most one row for a city name, the record just saved is the row
\* of its city, the rows of the other cities are the ones that were there
\* before the call, and session city_data equals the rows of the file.
C24_OneRowPerCity ==
    pc = "call_save_city_data" =>
        LET rows == load_collected_data(cities_data_csv)
        IN  /\ \A i \in DOMAIN rows : \A j \in DOMAIN rows :
                   rows[i].City = rows[j].City => i = j
            /\ \A r \in Range(rows) :
                   IF r.City = out.city_data.City THEN r = out.city_data
                   ELSE r \in Range(out.before)
            /\ out.city_data \in Range(rows)
            /\ \A r \in Range(out.before) :
                   r.City # out.city_data.City => r \in Range(rows)
            /\ session_state.city_data = File(rows)

(***************************************************************************)
(* Claims about the two spider normalisations                              *)
(***************************************************************************)
\* C25 (as stated): there is a template table with the nine base metrics
\* on which normalize_data_for_spider and normalize_default_data_for_spider
\* give different normalised unemployment rates.
C25_InvertedMetricDiffers ==
    /\ df \in SpiderTables
    /\ \E t \in SpiderTables : \E i \in DOMAIN t :
           normalize_data_for_spider(t)[i].Unemployment_Rate
               # normalize_default_data_for_spider(t, AllCols)[i].Unemployment_Rate

\* C25 (amended): on every template table with the nine base metrics the
\* two functions give every city the same normalised unemployment rate,
\* 100 - value / 100 * 100.
C25_InvertedMetricSame ==
    pc = "spider" =>
        \A i \in DOMAIN out :
            /\ out[i].Unemployment_Rate
                   = normalize_default_data_for_spider(df, cols)[i].Unemployment_Rate
            /\ out[i].Unemployment_Rate = RSub(R(100), df[i].Unemployment_Rate)

\* a table whose cities have different unemployment rates has been normalised
C25_Witness ==
    /\ pc = "spider"
    /\ \E i \in DOMAIN df : \E j \in DOMAIN df :
           /\ df[i].Unemployment_Rate # df[j].Unemployment_Rate
           /\ out[i].Unemployment_Rate # out[j].Unemployment_Rate

(***************************************************************************)
(* Claims about the overall scores of custom indicators                    *)
(***************************************************************************)
\* C26: calculate_overall_scores returns exactly one score for each city
\* with a stored indicator, every score lies in [0, 100], and the scores
\* come in non-increasing order.
C26_OneScorePerCityInRange ==
    pc = "overall" =>
        /\ {out.scores[k][1] : k \in DOMAIN out.scores}
               = {out.data[i].City : i \in DOMAIN out.data}
        /\ \A k \in DOMAIN out.scores : \A l \in DOMAIN out.scores :
               out.scores[k][1] = out.scores[l][1] => k = l
        /\ \A k \in DOMAIN out.scores :
               RLe(R(0), out.scores[k][2]) /\ RLe(out.scores[k][2], R(100))
        /\ \A k \in DOMAIN out.scores : \A l \in DOMAIN out.scores :
               k < l => RLe(out.scores[l][2], out.scores[k][2])

(***************************************************************************)
(* Claims about the session flags of the custom indicators                 *)
(***************************************************************************)
\* C27: after any sequence of custom-indicator operations and runs of main,
\* whenever use_custom_indicators and data_collection_complete are set,
\* check_analysis_readiness is true and session city_data is the
\* conversion of the indicators now stored.
C27_FlagsDescribeStoredData ==
    (session_state.use_custom_indicators /\ session_state.data_collection_complete)
        => /\ check_analysis_readiness(research_data, custom_indicators_csv)
           /\ session_state.city_data =
                  File(convert_custom_indicators_for_analysis(
                           research_data, custom_indicators_csv))

(***************************************************************************)
(* Claims about delete_indicator                                           *)
(***************************************************************************)
\* C28: delete_indicator(city, name) removes the stored entries whose City
\* and Indicator_Name both match and leaves the others, in their order,
\* as they were; with no matching entry or an empty store nothing changes.
C28_DeleteRemovesExactlyMatches ==
    pc = "call_delete_indicator" =>
        DataOf(custom_indicators_csv) =
            SelectSeq(out.before, LAMBDA r :
                ~(r.City = out.city_name /\ r.Indicator_Name = out.indicator_name))

====
